---- MODULE Spec2Model ----
(***************************************************************************)
(* pasty: the snippet store, its JSON snapshot and the range-aware file    *)
(* server, as state machines.                                              *)
(*                                                                         *)
(* Every HTTP request runs on its own goroutine.  A handler is cut into    *)
(* steps at its accesses to shared state (the snippets map, the files of   *)
(* the snapshot); statements between two accesses touch only locals and    *)
(* are folded into the step that follows them.                             *)
(*                                                                         *)
(* Strings are sequences of one-character strings, so that formatting,     *)
(* parsing and encoding are computed.                                      *)
(***************************************************************************)
EXTENDS Integers, Sequences, FiniteSets, TLC

(***************************************************************************)
(* Bounds of the model.                                                    *)
(***************************************************************************)
\* request goroutines that can be in flight together
NumHandlers == 2
\* rand.Intn is restricted to 0 .. MaxRand-1 in the server
MaxRand == 1
\* rand.Intn is restricted to 0 .. GenRand-1 in the sequential id-generation runs
GenRand == 4
\* POST /save requests accepted over a whole behaviour
MaxSaves == 2
\* largest store drawn as the input of a save/load round trip
MaxStore == 2
\* ids minted in the sequential id-generation runs
MaxGen == 3
FairRand == 2
\* readings of the wall clock
MaxClock == 2
\* objects in the uploads directory of the upload runs
MaxObjects == 2
\* largest stored object, in bytes
MaxSize == 3
\* longest range-spec (the part of a Range header after "bytes=")
MaxSpecLen == 3

(***************************************************************************)
(* Program constants.                                                      *)
(***************************************************************************)
\* generateURL: randomString(3)
IdLen == 3

snippetChars ==
  << "a", "b", "c", "d", "e", "f", "g", "h", "i", "j", "k", "l", "m",
     "n", "o", "p", "q", "r", "s", "t", "u", "v", "w", "x", "y", "z",
     "0", "1", "2", "3", "4", "5", "6", "7", "8", "9" >>

\* snapshot path and the temp path saveSnippetsToFile derives from it
SnapPath == "snippets.json"
TmpPath == "snippets.json.tmp"
Paths == {SnapPath, TmpPath}


(***************************************************************************)
(* Strings.  A string is a sequence of one-character strings.  BadByte     *)
(* stands for a byte that is not valid UTF-8 (a form value such as %FF is  *)
(* accepted by r.FormValue as is) and ReplacementChar for U+FFFD.          *)
(***************************************************************************)
BadByte == "\\xff"
ReplacementChar == "\\ufffd"

\* byte order of the characters of an id: digits sort before letters
AsciiOrder ==
  << "0", "1", "2", "3", "4", "5", "6", "7", "8", "9",
     "a", "b", "c", "d", "e", "f", "g", "h", "i", "j", "k", "l", "m",
     "n", "o", "p", "q", "r", "s", "t", "u", "v", "w", "x", "y", "z" >>

ByteRank(c) == CHOOSE i \in 1..Len(AsciiOrder) : AsciiOrder[i] = c

RECURSIVE StringLess(_, _)
StringLess(a, b) ==
  IF a = << >> THEN b # << >>
  ELSE IF b = << >> THEN FALSE
  ELSE IF a[1] = b[1] THEN StringLess(Tail(a), Tail(b))
  ELSE ByteRank(a[1]) < ByteRank(b[1])

\* the keys of a map in the order encoding/json writes them
RECURSIVE SortedKeys(_)
SortedKeys(S) ==
  IF S = {} THEN << >>
  ELSE LET k == CHOOSE x \in S : \A y \in S \ {x} : StringLess(x, y)
       IN  <<k>> \o SortedKeys(S \ {k})

(***************************************************************************)
(* The snippet store: a Go map from id to Snippet.  The field ser is not   *)
(* in the program: it numbers the POST /save requests, so that two         *)
(* snippets stored under one id at different times can be told apart.      *)
(***************************************************************************)
NoneTitle == << "N", "o", "n", "e" >>

Snippet(title, text, burn, ser) ==
  [Title |-> title, Text |-> text, BurnAfterReading |-> burn, ser |-> ser]

NoSnippet == Snippet(<< >>, << >>, FALSE, 0)

EmptyMap == << >>

Exists(m, id) == id \in DOMAIN m

MapPut(m, id, v) ==
  [k \in DOMAIN m \cup {id} |-> IF k = id THEN v ELSE m[k]]

\* a delete that misses its key
MapDeleteMisses(m, id) == m

MapDelete(m, id) == [k \in DOMAIN m \ {id} |-> m[k]]

(***************************************************************************)
(* randomString(n): n characters, each snippetChars[rand.Intn(36)].  The   *)
(* model restricts the random source: the last draw ranges over 0 .. k-1   *)
(* and the draws before it return 0.  randomString(n, k) is the set of     *)
(* strings the call can return.                                            *)
(***************************************************************************)
RandDraws(n, k) ==
  { r \in [1..n -> 0..(k - 1)] : \A i \in 1..(n - 1) : r[i] = 0 }

randomString(n, k) ==
  { [i \in 1..n |-> snippetChars[r[i] + 1]] : r \in RandDraws(n, k) }

\* the ids the server can mint, and the ids requests ask for
Ids == randomString(IdLen, MaxRand)

(***************************************************************************)
(* encoding/json.  A document is a sequence of tokens: an opening brace,   *)
(* one member per key in sorted key order, a closing brace.  Strings are   *)
(* coerced to valid UTF-8 by the encoder (an invalid byte becomes U+FFFD). *)
(* The decoder reads the first JSON value of the file and ignores what     *)
(* follows it; the members it reads are stored into the map it is given.   *)
(***************************************************************************)
CoerceUTF8(s) ==
  [i \in 1..Len(s) |-> IF s[i] = BadByte THEN ReplacementChar ELSE s[i]]

OpenTok == [tok |-> "{", key |-> << >>, val |-> NoSnippet]
CloseTok == [tok |-> "}", key |-> << >>, val |-> NoSnippet]

Member(k, v) ==
  [tok |-> "member",
   key |-> CoerceUTF8(k),
   val |-> Snippet(CoerceUTF8(v.Title), CoerceUTF8(v.Text),
                   v.BurnAfterReading, v.ser)]

MarshalIndent(m) ==
  LET keys == SortedKeys(DOMAIN m)
  IN  <<OpenTok>> \o [i \in 1..Len(keys) |-> Member(keys[i], m[keys[i]])]
        \o <<CloseTok>>

\* the index of the token that ends the first JSON value, 0 if there is none
FirstClose(doc) ==
  IF \E i \in 1..Len(doc) : doc[i].tok = "}"
  THEN CHOOSE i \in 1..Len(doc) :
         /\ doc[i].tok = "}"
         /\ \A j \in 1..(i - 1) : doc[j].tok # "}"
  ELSE 0

DecodeOk(doc) ==
  /\ FirstClose(doc) >= 2
  /\ doc[1].tok = "{"
  /\ \A j \in 2..(FirstClose(doc) - 1) : doc[j].tok = "member"

\* decoder.Decode(&m): a key read twice keeps its last value
Decode(m, doc) ==
  LET n == FirstClose(doc)
      keys == { doc[j].key : j \in 2..(n - 1) }
      last(k) == CHOOSE j \in 2..(n - 1) :
                   /\ doc[j].key = k
                   /\ \A i \in (j + 1)..(n - 1) : doc[i].key # k
  IN  [k \in DOMAIN m \cup keys |->
         IF k \in keys THEN doc[last(k)].val ELSE m[k]]

(***************************************************************************)
(* Files of the snapshot.  A file is present or not and has a content; an  *)
(* open file follows its inode: rename moves a file that another           *)
(* goroutine still has open, and replaces the one at the target.           *)
(***************************************************************************)
NoFile == [exists |-> FALSE, content |-> << >>]
File(c) == [exists |-> TRUE, content |-> c]

\* write(2) of data at offset 0 of a file whose content is old
WriteAt0(old, bytes) == bytes \o SubSeq(old, Len(bytes) + 1, Len(old))

(***************************************************************************)
(* State.                                                                  *)
(***************************************************************************)
Handlers == 1..NumHandlers
\* the goroutine setupGracefulShutdown starts
SignalProc == 0
Procs == Handlers \cup {SignalProc}

VARIABLES
  proc,      \* the process: "down", "up", or "fatal" (log.Fatalf at startup)
  snippets,  \* var snippets map[string]Snippet
  disk,      \* the files at SnapPath and TmpPath
  fd,        \* where the file a goroutine has open is: "none", "tmp", "snap", "orphan"
  pc,        \* each goroutine's position
  req,       \* the request a goroutine is serving
  url,       \* local url of handleSave / displaySnippet (generateURL's id)
  snip,      \* local snippet: the one to store, or the copy displaySnippet read
  data,      \* local data of saveSnippetsToFile
  out,       \* what the last step sent to a client and logged, if anything
  solo,      \* history: no other goroutine was in flight since this request began
  burned,    \* history: ids removed by a burn and not stored again since
  nextSer,   \* history: number of the next POST /save
  committed, \* history: the document of the save whose rename succeeded last
  issued,    \* history: the ids generateURL returned, in order
  orig,      \* history: the store a round trip started from, and its phase
  past,      \* history: the burn snippets rendered, and the ids removed
  list,      \* buildSnippetsList: its arguments, position and results
  uploads,   \* the regular files in the directory "uploads": name -> bytes
  files,     \* var files map[string]FileInfo
  freq,      \* a file request on its way to its handler
  given,     \* history: the last successful upload, while nothing undid it
  fout       \* the answer to the last file request

vars == << proc, snippets, disk, fd, pc, req, url, snip, data, out, solo,
           burned, nextSer, committed, issued, orig, past, list, uploads, files,
           freq, given, fout >>

NoReq == [kind |-> "none", id |-> << >>]
Req(kind, id) == [kind |-> kind, id |-> id]
\* POST /save with its form values
SaveReq(title, text, burnValue) ==
  [kind |-> "save", id |-> << >>, title |-> title, text |-> text,
   burn |-> burnValue]

(***************************************************************************)
(* out: the goroutine p that acted, the request it serves, the status,     *)
(* Location and body it sent (code 0: nothing sent), the line              *)
(* saveSnippetsToFile logged ("saved", "error" or ""), and two history     *)
(* fields: solo[p] at that moment, and whether the id asked for was in     *)
(* burned when the map was read.  fin: the handler returned in this step.   *)
(***************************************************************************)
Quiet == [p |-> -1, req |-> NoReq, code |-> 0, loc |-> "", id |-> << >>,
          body |-> NoSnippet, log |-> "", fin |-> FALSE, solo |-> FALSE,
          sawBurned |-> FALSE, render |-> ""]
Sent(p, r) == [Quiet EXCEPT !.p = p, !.req = r]
Redirect(o, loc, id) == [o EXCEPT !.code = 303, !.loc = loc, !.id = id]
\* a rendering that is answered as an error
RenderedAsError(o, id, s) == [o EXCEPT !.code = 500]
Rendered(o, id, s) == [o EXCEPT !.code = 200, !.id = id, !.body = s]
ServerError(o) == [o EXCEPT !.code = 500]

InFlight(p) == pc[p] # "idle"

\* a request that takes more than one step begins on goroutine p
Begin(p, r) ==
  /\ req' = [req EXCEPT ![p] = r]
  /\ solo' = [q \in Procs |->
                IF q = p THEN \A o \in Procs \ {p} : ~InFlight(o) ELSE FALSE]

\* everything the process holds in memory is gone
Halt ==
  /\ proc' = "down"
  /\ snippets' = EmptyMap
  /\ fd' = [p \in Procs |-> "none"]
  /\ pc' = [p \in Procs |-> "idle"]
  /\ req' = [p \in Procs |-> NoReq]
  /\ url' = [p \in Procs |-> << >>]
  /\ snip' = [p \in Procs |-> NoSnippet]
  /\ data' = [p \in Procs |-> << >>]
  /\ solo' = [p \in Procs |-> FALSE]
  /\ burned' = {}

\* nothing rendered, nothing removed
NoPast == [shown |-> {}, removed |-> {}]

\* buildSnippetsList is not running
NoList == [pc |-> "none", maxResults |-> 0, results |-> << >>]

\* no goroutine is in flight and nothing has been sent
InitIdle ==
  /\ fd = [p \in Procs |-> "none"]
  /\ pc = [p \in Procs |-> "idle"]
  /\ req = [p \in Procs |-> NoReq]
  /\ url = [p \in Procs |-> << >>]
  /\ snip = [p \in Procs |-> NoSnippet]
  /\ data = [p \in Procs |-> << >>]
  /\ out = Quiet
  /\ solo = [p \in Procs |-> FALSE]
  /\ burned = {}
  /\ nextSer = 1
  /\ committed = << >>
  /\ issued = << >>
  /\ past = NoPast
  /\ list = NoList

NoFileReq == [kind |-> "none"]
NoFileResp == [code |-> 0]
NoUpload == [id |-> << >>, submitted |-> << >>, content |-> << >>]

\* no uploaded file, no file request
InitNoFiles ==
  /\ uploads = EmptyMap
  /\ files = EmptyMap
  /\ freq = NoFileReq
  /\ given = NoUpload
  /\ fout = NoFileResp

Init ==
  /\ proc = "down"
  /\ snippets = EmptyMap
  /\ disk = [f \in Paths |-> NoFile]
  /\ InitIdle
  /\ orig = [m |-> EmptyMap, phase |-> "none"]
  /\ InitNoFiles

(***************************************************************************)
(* main: loadSnippetsFromFile("snippets.json"), then serve.                *)
(***************************************************************************)
\* a load that treats a missing snapshot as a fatal error
loadSnippetsFromFileStrict(opens) ==
  IF disk[SnapPath].exists /\ opens /\ DecodeOk(disk[SnapPath].content)
  THEN /\ snippets' = Decode(snippets, disk[SnapPath].content)
       /\ proc' = "up"
  ELSE /\ snippets' = snippets
       /\ proc' = "fatal"

\* opens: os.Open(filename) succeeds.  log.Fatalf ends the process.
loadSnippetsFromFile(opens) ==
  IF ~disk[SnapPath].exists
  THEN /\ snippets' = snippets
       /\ proc' = "up"
  ELSE IF opens /\ DecodeOk(disk[SnapPath].content)
  THEN /\ snippets' = Decode(snippets, disk[SnapPath].content)
       /\ proc' = "up"
  ELSE /\ snippets' = snippets
       /\ proc' = "fatal"

Start(opens) ==
  /\ proc = "down"
  /\ loadSnippetsFromFile(opens)
  /\ out' = Quiet
  /\ UNCHANGED << disk, fd, pc, req, url, snip, data, solo, burned, nextSer,
                  committed >>

\* the process is killed, at any point
Crash ==
  /\ proc = "up"
  /\ Halt
  /\ out' = Quiet
  /\ UNCHANGED << disk, nextSer, committed >>

(***************************************************************************)
(* handleSave and generateURL.                                             *)
(***************************************************************************)
\* form values read; id is generateURL's first randomString(3)
HandleSave(h, title, text, burnValue, id) ==
  /\ proc = "up"
  /\ pc[h] = "idle"
  /\ nextSer <= MaxSaves
  /\ url' = [url EXCEPT ![h] = id]
  /\ snip' = [snip EXCEPT ![h] =
                Snippet(IF title = << >> THEN NoneTitle ELSE title, text,
                        burnValue = "true", nextSer)]
  /\ nextSer' = nextSer + 1
  /\ pc' = [pc EXCEPT ![h] = "gen"]
  /\ Begin(h, SaveReq(title, text, burnValue))
  /\ out' = Quiet
  /\ UNCHANGED << proc, snippets, disk, fd, data, burned, committed >>

\* generateURL: the id exists, loop again; id is the next randomString(3)
GenerateURLRetry(h, id) ==
  /\ pc[h] = "gen"
  /\ Exists(snippets, url[h])
  /\ url' = [url EXCEPT ![h] = id]
  /\ out' = Quiet
  /\ UNCHANGED << proc, snippets, disk, fd, pc, req, snip, data, solo,
                  burned, nextSer, committed >>

\* generateURL without its collision check
GenerateURLUnchecked(h) ==
  /\ pc[h] = "gen"
  /\ pc' = [pc EXCEPT ![h] = "put"]
  /\ out' = Quiet
  /\ UNCHANGED << proc, snippets, disk, fd, req, url, snip, data, solo,
                  burned, nextSer, committed >>

\* generateURL: the id does not exist, return it
GenerateURLReturn(h) ==
  /\ pc[h] = "gen"
  /\ ~Exists(snippets, url[h])
  /\ pc' = [pc EXCEPT ![h] = "put"]
  /\ out' = Quiet
  /\ UNCHANGED << proc, snippets, disk, fd, req, url, snip, data, solo,
                  burned, nextSer, committed >>

\* snippets[url] = Snippet{...}
StoreSnippet(h) ==
  /\ pc[h] = "put"
  /\ snippets' = MapPut(snippets, url[h], snip[h])
  /\ burned' = burned \ {url[h]}
  /\ snip' = [snip EXCEPT ![h] = NoSnippet]
  /\ pc' = [pc EXCEPT ![h] = "marshal"]
  /\ out' = Quiet
  /\ UNCHANGED << proc, disk, fd, req, url, data, solo, nextSer, committed >>

(***************************************************************************)
(* displaySnippet.  render is the outcome of tmplDisplay.Execute, which    *)
(* writes to w as it goes: "ok", "fail" (an error before anything was      *)
(* written) or "partial" (an error after a first write: the status 200 is  *)
(* out, and the WriteHeader(500) of http.Error has no effect).  At "burn"  *)
(* the snippet has been rendered to the client and                         *)
(* snippet.BurnAfterReading is set.                                        *)
(***************************************************************************)
\* the handler reaches delete(snippets, url): Execute returned nil and
\* snippet.BurnAfterReading is set
BurnsAfter(id, render) ==
  Exists(snippets, id) /\ render = "ok" /\ snippets[id].BurnAfterReading

DisplaySnippet(h, id, render) ==
  /\ proc = "up"
  /\ pc[h] = "idle"
  /\ LET found == Exists(snippets, id)
         burn == BurnsAfter(id, render)
         o == [Sent(h, Req("display", id))
                 EXCEPT !.sawBurned = id \in burned, !.fin = ~burn,
                        !.render = IF found THEN render ELSE ""]
     IN  /\ out' = IF ~found THEN Redirect(o, "/", << >>)
                   ELSE IF render = "fail" THEN ServerError(o)
                   ELSE Rendered(o, id, snippets[id])
         /\ pc' = [pc EXCEPT ![h] = IF burn THEN "burn" ELSE "idle"]
         /\ url' = [url EXCEPT ![h] = IF burn THEN id ELSE << >>]
         /\ snip' = [snip EXCEPT ![h] = IF burn THEN snippets[id] ELSE NoSnippet]
         /\ IF burn THEN Begin(h, Req("display", id))
                    ELSE UNCHANGED << req, solo >>
  /\ UNCHANGED << proc, snippets, disk, fd, data, burned, nextSer, committed >>

\* if snippet.BurnAfterReading { delete(snippets, url)
BurnDelete(h) ==
  /\ pc[h] = "burn"
  /\ snippets' = MapDelete(snippets, url[h])
  /\ burned' = burned \cup {url[h]}
  /\ url' = [url EXCEPT ![h] = << >>]
  /\ snip' = [snip EXCEPT ![h] = NoSnippet]
  /\ pc' = [pc EXCEPT ![h] = "marshal"]
  /\ out' = Quiet
  /\ UNCHANGED << proc, disk, fd, req, data, solo, nextSer, committed >>

(***************************************************************************)
(* deleteSnippet.                                                          *)
(***************************************************************************)
DeleteSnippet(h, id) ==
  /\ proc = "up"
  /\ pc[h] = "idle"
  /\ snippets' = MapDelete(snippets, id)
  /\ pc' = [pc EXCEPT ![h] = "marshal"]
  /\ Begin(h, Req("delete", id))
  /\ out' = Quiet
  /\ UNCHANGED << proc, disk, fd, url, snip, data, burned, nextSer,
                  committed >>

(***************************************************************************)
(* setupGracefulShutdown: the goroutine wakes on SIGINT / SIGTERM.         *)
(***************************************************************************)
\* a shutdown goroutine that exits without saving
SignalExits ==
  /\ proc = "up"
  /\ pc[SignalProc] = "idle"
  /\ Halt
  /\ out' = Quiet
  /\ UNCHANGED << disk, nextSer, committed >>

Signal ==
  /\ proc = "up"
  /\ pc[SignalProc] = "idle"
  /\ pc' = [pc EXCEPT ![SignalProc] = "marshal"]
  /\ Begin(SignalProc, Req("shutdown", << >>))
  /\ out' = Quiet
  /\ UNCHANGED << proc, snippets, disk, fd, url, snip, data, burned, nextSer,
                  committed >>

(***************************************************************************)
(* saveSnippetsToFile, run by handleSave, displaySnippet, deleteSnippet    *)
(* and the shutdown goroutine.  json.MarshalIndent cannot fail on a map of *)
(* strings and booleans, so its error branch has no step.                  *)
(***************************************************************************)
\* what the caller sends after saveSnippetsToFile has returned having logged lg
FinalResp(p, lg) ==
  LET o == [Sent(p, req[p]) EXCEPT !.log = lg, !.fin = TRUE, !.solo = solo[p]]
  IN  IF req[p].kind = "save" THEN Redirect(o, "/display/", url[p])
      ELSE IF req[p].kind = "delete" THEN Redirect(o, "/", << >>)
      ELSE o

\* saveSnippetsToFile returns and its caller finishes: a handler answers,
\* the shutdown goroutine calls os.Exit(0)
Return(p, lg, fdAfter) ==
  /\ out' = FinalResp(p, lg)
  /\ IF req[p].kind = "shutdown"
     THEN Halt
     ELSE /\ fd' = fdAfter
          /\ pc' = [pc EXCEPT ![p] = "idle"]
          /\ req' = [req EXCEPT ![p] = NoReq]
          /\ solo' = [solo EXCEPT ![p] = FALSE]
          /\ url' = [url EXCEPT ![p] = << >>]
          /\ data' = [data EXCEPT ![p] = << >>]
          /\ UNCHANGED << proc, snippets, snip, burned >>

\* data, err := json.MarshalIndent(snippets, "", "  ")
Marshal(p) ==
  /\ pc[p] = "marshal"
  /\ data' = [data EXCEPT ![p] = MarshalIndent(snippets)]
  /\ pc' = [pc EXCEPT ![p] = "open"]
  /\ out' = Quiet
  /\ UNCHANGED << proc, snippets, disk, fd, req, url, snip, solo, burned,
                  nextSer, committed >>

\* os.WriteFile opens tmpFile with O_WRONLY|O_CREATE|O_TRUNC
OpenTmp(p) ==
  /\ pc[p] = "open"
  /\ disk' = [disk EXCEPT ![TmpPath] = File(<< >>)]
  /\ fd' = [fd EXCEPT ![p] = "tmp"]
  /\ pc' = [pc EXCEPT ![p] = "write"]
  /\ out' = Quiet
  /\ UNCHANGED << proc, snippets, req, url, snip, data, solo, burned, nextSer,
                  committed >>

\* the open fails: "Error writing temp file", return
OpenTmpFails(p) ==
  /\ pc[p] = "open"
  /\ Return(p, "error", fd)
  /\ UNCHANGED << disk, nextSer, committed >>

\* the files after n bytes of data are written through p's descriptor
Written(p, n) ==
  LET bytes == SubSeq(data[p], 1, n)
      at(f) == [disk EXCEPT ![f] = File(WriteAt0(disk[f].content, bytes))]
  IN  IF fd[p] = "tmp" THEN at(TmpPath)
      ELSE IF fd[p] = "snap" THEN at(SnapPath)
      ELSE disk

\* os.WriteFile writes data and closes the file
WriteTmp(p) ==
  /\ pc[p] = "write"
  /\ disk' = Written(p, Len(data[p]))
  /\ fd' = [fd EXCEPT ![p] = "none"]
  /\ pc' = [pc EXCEPT ![p] = "rename"]
  /\ out' = Quiet
  /\ UNCHANGED << proc, snippets, req, url, snip, data, solo, burned, nextSer,
                  committed >>

\* the write fails after n bytes: "Error writing temp file", return
WriteTmpFails(p, n) ==
  /\ pc[p] = "write"
  /\ n < Len(data[p])
  /\ disk' = Written(p, n)
  /\ Return(p, "error", [fd EXCEPT ![p] = "none"])
  /\ UNCHANGED << nextSer, committed >>

\* a save that reports success and leaves the snapshot as it was
RenameSkipped(p) ==
  /\ pc[p] = "rename"
  /\ disk[TmpPath].exists
  /\ disk' = disk
  /\ Return(p, "saved", fd)
  /\ committed' = data[p]
  /\ UNCHANGED nextSer

\* os.Rename(tmpFile, filename): the file at tmpFile, and whoever has it
\* open, moves to filename; the file that was there is unlinked
Rename(p) ==
  /\ pc[p] = "rename"
  /\ disk[TmpPath].exists
  /\ disk' = [disk EXCEPT ![SnapPath] = disk[TmpPath], ![TmpPath] = NoFile]
  /\ Return(p, "saved",
            [q \in Procs |-> IF fd[q] = "tmp" THEN "snap"
                             ELSE IF fd[q] = "snap" THEN "orphan"
                             ELSE fd[q]])
  /\ committed' = data[p]
  /\ UNCHANGED nextSer

\* the rename fails (tmpFile is gone, or the file system refuses):
\* "Error renaming temp file", return
RenameFails(p) ==
  /\ pc[p] = "rename"
  /\ Return(p, "error", fd)
  /\ UNCHANGED << disk, nextSer, committed >>

(***************************************************************************)
(* The server: any number of requests on NumHandlers goroutines, crashes   *)
(* and restarts.                                                           *)
(***************************************************************************)
Titles == { << >> }
Texts == { << "h", "i" >> }
BurnValues == { "true", "" }
Renders == { "ok", "fail", "partial" }

\* the history of the other specifications stays as it is
ServerFrame ==
  UNCHANGED << issued, orig, past, list, uploads, files, freq, given, fout >>

Next ==
  \/ \E opens \in BOOLEAN : Start(opens) /\ ServerFrame
  \/ Crash /\ ServerFrame
  \/ \E h \in Handlers, t \in Titles, x \in Texts, b \in BurnValues, id \in Ids :
       HandleSave(h, t, x, b, id) /\ ServerFrame
  \/ \E h \in Handlers, id \in Ids : GenerateURLRetry(h, id) /\ ServerFrame
  \/ \E h \in Handlers : GenerateURLReturn(h) /\ ServerFrame
  \/ \E h \in Handlers : StoreSnippet(h) /\ ServerFrame
  \/ \E h \in Handlers, id \in Ids, r \in Renders :
       DisplaySnippet(h, id, r) /\ ServerFrame
  \/ \E h \in Handlers : BurnDelete(h) /\ ServerFrame
  \/ \E h \in Handlers, id \in Ids : DeleteSnippet(h, id) /\ ServerFrame
  \/ \E h \in Handlers : Marshal(h) /\ ServerFrame
  \/ \E h \in Handlers : OpenTmp(h) /\ ServerFrame
  \/ \E h \in Handlers : OpenTmpFails(h) /\ ServerFrame
  \/ \E h \in Handlers : WriteTmp(h) /\ ServerFrame
  \/ \E h \in Handlers : \E n \in 0..Len(data[h]) :
       WriteTmpFails(h, n) /\ ServerFrame
  \/ \E h \in Handlers : Rename(h) /\ ServerFrame
  \/ \E h \in Handlers : RenameFails(h) /\ ServerFrame

Spec == Init /\ [][Next]_vars

(***************************************************************************)
(* Specification SpecSave: the server with a file system that does not     *)
(* fail and a process that is not stopped.  os.Rename still fails when the *)
(* temporary file is not there, another save having renamed it.            *)
(***************************************************************************)
InitSave ==
  /\ proc = "up"
  /\ snippets = EmptyMap
  /\ disk = [f \in Paths |-> NoFile]
  /\ InitIdle
  /\ orig = [m |-> EmptyMap, phase |-> "none"]
  /\ InitNoFiles

NextSave ==
  \/ \E h \in Handlers, t \in Titles, x \in Texts, b \in BurnValues, id \in Ids :
       HandleSave(h, t, x, b, id) /\ ServerFrame
  \/ \E h \in Handlers, id \in Ids : GenerateURLRetry(h, id) /\ ServerFrame
  \/ \E h \in Handlers : GenerateURLReturn(h) /\ ServerFrame
  \/ \E h \in Handlers : StoreSnippet(h) /\ ServerFrame
  \/ \E h \in Handlers, id \in Ids : DisplaySnippet(h, id, "ok") /\ ServerFrame
  \/ \E h \in Handlers : BurnDelete(h) /\ ServerFrame
  \/ \E h \in Handlers, id \in Ids : DeleteSnippet(h, id) /\ ServerFrame
  \/ \E h \in Handlers : Marshal(h) /\ ServerFrame
  \/ \E h \in Handlers : OpenTmp(h) /\ ServerFrame
  \/ \E h \in Handlers : WriteTmp(h) /\ ServerFrame
  \/ \E h \in Handlers : Rename(h) /\ ServerFrame
  \/ \E h \in Handlers :
       ~disk[TmpPath].exists /\ RenameFails(h) /\ ServerFrame

SpecSave == InitSave /\ [][NextSave]_vars

(***************************************************************************)
(* Specification SpecLinks: one request at a time on one goroutine, with   *)
(* I/O failures, crashes and restarts, and the history of what has been    *)
(* shown and removed.  past.shown holds the burn-after-reading snippets    *)
(* that were rendered with success, past.removed the ids a running process *)
(* has removed from the store.                                             *)
(***************************************************************************)
Recorded ==
  /\ past' =
       [shown |->
          past.shown \cup
            IF /\ out'.req.kind = "display"
               /\ out'.code = 200
               /\ out'.render = "ok"
               /\ out'.body.BurnAfterReading
            THEN { out'.body.ser } ELSE {},
        removed |->
          past.removed \cup
            IF proc = "up" /\ proc' = "up"
            THEN DOMAIN snippets \ DOMAIN snippets' ELSE {}]
  /\ UNCHANGED << issued, orig, list, uploads, files, freq, given, fout >>

NextLinks ==
  \/ \E opens \in BOOLEAN : Start(opens) /\ Recorded
  \/ Crash /\ Recorded
  \/ \E t \in Titles, x \in Texts, b \in BurnValues, id \in Ids :
       HandleSave(1, t, x, b, id) /\ Recorded
  \/ \E id \in Ids : GenerateURLRetry(1, id) /\ Recorded
  \/ GenerateURLReturn(1) /\ Recorded
  \/ StoreSnippet(1) /\ Recorded
  \/ \E id \in Ids, r \in Renders : DisplaySnippet(1, id, r) /\ Recorded
  \/ BurnDelete(1) /\ Recorded
  \/ \E id \in Ids : DeleteSnippet(1, id) /\ Recorded
  \/ Marshal(1) /\ Recorded
  \/ OpenTmp(1) /\ Recorded
  \/ OpenTmpFails(1) /\ Recorded
  \/ WriteTmp(1) /\ Recorded
  \/ \E n \in 0..Len(data[1]) : WriteTmpFails(1, n) /\ Recorded
  \/ Rename(1) /\ Recorded
  \/ RenameFails(1) /\ Recorded

SpecLinks == Init /\ [][NextLinks]_vars

(***************************************************************************)
(* Graceful shutdown and restart: SIGTERM makes the shutdown goroutine     *)
(* save the store and exit; main then loads the snapshot into the empty    *)
(* map of the new process.  The store at the signal is any store of at     *)
(* most MaxStore snippets.  orig.phase follows the round trip: "saving",   *)
(* then "saved" or "failed" at exit, then "loaded" or "lost" at restart.   *)
(***************************************************************************)
RTIds == randomString(IdLen, MaxStore)
RTTitles == { NoneTitle, << "t" >> }
RTTexts == { << >>, << "h", "i" >>, << "<", BadByte >> }
RTSnippets ==
  { Snippet(t, x, b, 0) : t \in RTTitles, x \in RTTexts, b \in BOOLEAN }
RTStores == UNION { [S -> RTSnippets] : S \in SUBSET RTIds }

InitRT ==
  /\ proc = "up"
  /\ snippets \in RTStores
  /\ disk = [f \in Paths |-> NoFile]
  /\ InitIdle
  /\ orig = [m |-> snippets, phase |-> "saving"]
  /\ InitNoFiles

Exits(phase) ==
  /\ orig' = [orig EXCEPT !.phase = phase]
  /\ UNCHANGED << issued, past, list, uploads, files, freq, given, fout >>

NextRT ==
  \/ orig.phase = "saving" /\ Signal /\ ServerFrame
  \/ Marshal(SignalProc) /\ ServerFrame
  \/ OpenTmp(SignalProc) /\ ServerFrame
  \/ OpenTmpFails(SignalProc) /\ Exits("failed")
  \/ WriteTmp(SignalProc) /\ ServerFrame
  \/ \E n \in 0..Len(data[SignalProc]) :
       WriteTmpFails(SignalProc, n) /\ Exits("failed")
  \/ Rename(SignalProc) /\ Exits("saved")
  \/ RenameFails(SignalProc) /\ Exits("failed")
  \/ orig.phase = "saved" /\ Start(TRUE) /\ Exits("loaded")
  \/ orig.phase = "failed" /\ Start(TRUE) /\ Exits("lost")

SpecRT == InitRT /\ [][NextRT]_vars

(***************************************************************************)
(* Specification SpecShutdown: SpecRT with the shutdown goroutine          *)
(* scheduled.  Once woken, the goroutine is runnable until os.Exit(0): the *)
(* Go scheduler runs it, and each of its system calls returns, with or     *)
(* without an error.                                                       *)
(***************************************************************************)
ShutdownSave ==
  \/ Marshal(SignalProc) /\ ServerFrame
  \/ OpenTmp(SignalProc) /\ ServerFrame
  \/ OpenTmpFails(SignalProc) /\ Exits("failed")
  \/ WriteTmp(SignalProc) /\ ServerFrame
  \/ \E n \in 0..Len(data[SignalProc]) :
       WriteTmpFails(SignalProc, n) /\ Exits("failed")
  \/ Rename(SignalProc) /\ Exits("saved")
  \/ RenameFails(SignalProc) /\ Exits("failed")

SpecShutdown == InitRT /\ [][NextRT]_vars /\ WF_vars(ShutdownSave)

(***************************************************************************)
(* Specification SpecStore: reads and removals on a store of at most       *)
(* MaxStore snippets, by NumHandlers goroutines, each followed by its      *)
(* save.                                                                   *)
(***************************************************************************)
StoreSnippets == { Snippet(NoneTitle, << "h", "i" >>, b, 0) : b \in BOOLEAN }
StoreStores == UNION { [S -> StoreSnippets] : S \in SUBSET RTIds }

InitStore ==
  /\ proc = "up"
  /\ snippets \in StoreStores
  /\ disk = [f \in Paths |-> NoFile]
  /\ InitIdle
  /\ orig = [m |-> EmptyMap, phase |-> "none"]
  /\ InitNoFiles

NextStore ==
  \/ \E h \in Handlers, id \in RTIds, r \in Renders :
       DisplaySnippet(h, id, r) /\ ServerFrame
  \/ \E h \in Handlers : BurnDelete(h) /\ ServerFrame
  \/ \E h \in Handlers, id \in RTIds : DeleteSnippet(h, id) /\ ServerFrame
  \/ \E h \in Handlers : Marshal(h) /\ ServerFrame
  \/ \E h \in Handlers : OpenTmp(h) /\ ServerFrame
  \/ \E h \in Handlers : OpenTmpFails(h) /\ ServerFrame
  \/ \E h \in Handlers : WriteTmp(h) /\ ServerFrame
  \/ \E h \in Handlers : \E n \in 0..Len(data[h]) :
       WriteTmpFails(h, n) /\ ServerFrame
  \/ \E h \in Handlers : Rename(h) /\ ServerFrame
  \/ \E h \in Handlers : RenameFails(h) /\ ServerFrame

SpecStore == InitStore /\ [][NextStore]_vars

(***************************************************************************)
(* Sequential id generation, as TestGenerateURL drives it: generateURL is  *)
(* called against a store that starts empty, and each id it returns is     *)
(* stored (snippets[url] = Snippet{}) before the next call.                *)
(***************************************************************************)
GenIds == randomString(IdLen, GenRand)

InitGen ==
  /\ proc = "up"
  /\ snippets = EmptyMap
  /\ disk = [f \in Paths |-> NoFile]
  /\ InitIdle
  /\ orig = [m |-> EmptyMap, phase |-> "none"]
  /\ InitNoFiles

\* url := generateURL(); id is its first randomString(3)
TestGenerateURLCall(h, id) ==
  /\ pc[h] = "idle"
  /\ Len(issued) < MaxGen
  /\ url' = [url EXCEPT ![h] = id]
  /\ pc' = [pc EXCEPT ![h] = "gen"]
  /\ out' = Quiet
  /\ UNCHANGED << proc, snippets, disk, fd, req, snip, data, solo, burned,
                  nextSer, committed >>
  /\ ServerFrame

\* snippets[url] = Snippet{}
TestGenerateURLStore(h) ==
  /\ pc[h] = "put"
  /\ snippets' = MapPut(snippets, url[h], NoSnippet)
  /\ url' = [url EXCEPT ![h] = << >>]
  /\ pc' = [pc EXCEPT ![h] = "idle"]
  /\ out' = Quiet
  /\ UNCHANGED << proc, disk, fd, req, snip, data, solo, burned, nextSer,
                  committed >>
  /\ ServerFrame

NextGen ==
  \/ \E id \in GenIds : TestGenerateURLCall(1, id)
  \/ \E id \in GenIds : GenerateURLRetry(1, id) /\ ServerFrame
  \/ /\ GenerateURLReturn(1)
     /\ issued' = Append(issued, url[1])
     /\ UNCHANGED << orig, past, list, uploads, files, freq, given, fout >>
  \/ TestGenerateURLStore(1)

SpecGen == InitGen /\ [][NextGen]_vars

(***************************************************************************)
(* Specification SpecGenFair: generateURL called by NumHandlers goroutines *)
(* against a pool of FairRand ids, under a fair random choice: while the   *)
(* loop runs, every id of the pool is drawn again and again, and a         *)
(* goroutine whose candidate is free returns it.                           *)
(***************************************************************************)
FairIds == randomString(IdLen, FairRand)

\* generateURL returns url[h]
GenerateURLReturns(h) ==
  /\ GenerateURLReturn(h)
  /\ issued' = Append(issued, url[h])
  /\ UNCHANGED << orig, past, list, uploads, files, freq, given, fout >>

NextGenFair ==
  \/ \E h \in Handlers, id \in FairIds : TestGenerateURLCall(h, id)
  \/ \E h \in Handlers, id \in FairIds : GenerateURLRetry(h, id) /\ ServerFrame
  \/ \E h \in Handlers : GenerateURLReturns(h)
  \/ \E h \in Handlers : TestGenerateURLStore(h)

SpecGenFair ==
  /\ InitGen
  /\ [][NextGenFair]_vars
  /\ \A h \in Handlers :
       /\ WF_vars(GenerateURLReturns(h))
       /\ WF_vars(TestGenerateURLStore(h))
       /\ \A id \in FairIds : SF_vars(GenerateURLRetry(h, id) /\ ServerFrame)

(***************************************************************************)
(* The file server (upload.go).  File names and header values are          *)
(* sequences of one-character strings; a literal piece of a formatted      *)
(* value (such as "bytes ") is kept as one element.  The bytes of an       *)
(* object are numbers.                                                     *)
(***************************************************************************)
FileInfo(id, name, storedName) ==
  [ID |-> id, Name |-> name, StoredName |-> storedName]

DigitChars == << "0", "1", "2", "3", "4", "5", "6", "7", "8", "9" >>
IsDigit(c) == \E d \in 1..Len(DigitChars) : DigitChars[d] = c
DigitValue(c) == (CHOOSE d \in 1..Len(DigitChars) : DigitChars[d] = c) - 1

RECURSIVE Itoa(_)
\* fmt.Sprintf("%d", n)
Itoa(n) ==
  IF n < 0 THEN << "-" >> \o Itoa(0 - n)
  ELSE IF n < Len(DigitChars) THEN << DigitChars[n + 1] >>
  ELSE Itoa(n \div Len(DigitChars)) \o << DigitChars[(n % Len(DigitChars)) + 1] >>

RECURSIVE DigitsValue(_)
DigitsValue(s) ==
  IF s = << >> THEN 0
  ELSE DigitsValue(SubSeq(s, 1, Len(s) - 1)) * Len(DigitChars)
       + DigitValue(s[Len(s)])

\* strconv.ParseInt(s, 10, 64): an optional sign, then one or more digits.
\* The strings of the model are too short to leave the int64 range.
ParseInt(s) ==
  LET signed == s # << >> /\ s[1] \in {"+", "-"}
      digits == IF signed THEN Tail(s) ELSE s
  IN  IF digits = << >> \/ \E i \in 1..Len(digits) : ~IsDigit(digits[i])
      THEN [ok |-> FALSE, val |-> 0]
      ELSE [ok |-> TRUE,
            val |-> IF signed /\ s[1] = "-" THEN 0 - DigitsValue(digits)
                    ELSE DigitsValue(digits)]

RECURSIVE Split(_, _)
\* strings.Split(s, sep) for a one-character sep
Split(s, sep) ==
  IF \A i \in 1..Len(s) : s[i] # sep THEN << s >>
  ELSE LET i == CHOOSE k \in 1..Len(s) :
                  s[k] = sep /\ \A j \in 1..(k - 1) : s[j] # sep
       IN  << SubSeq(s, 1, i - 1) >> \o Split(SubSeq(s, i + 1, Len(s)), sep)

RECURSIVE TrimSlashes(_)
TrimSlashes(path) ==
  IF path # << >> /\ path[Len(path)] = "/"
  THEN TrimSlashes(SubSeq(path, 1, Len(path) - 1))
  ELSE path

\* filepath.Base
Base(path) ==
  IF path = << >> THEN << "." >>
  ELSE LET q == TrimSlashes(path)
           slashes == { i \in 1..Len(q) : q[i] = "/" }
           last == IF slashes = {} THEN 0
                   ELSE CHOOSE i \in slashes : \A j \in slashes : j <= i
       IN  IF q = << >> THEN << "/" >> ELSE SubSeq(q, last + 1, Len(q))

\* filepath.Ext: the suffix from the last dot of the last element
Ext(path) ==
  LET dots == { i \in 1..Len(path) :
                  path[i] = "." /\ \A j \in i..Len(path) : path[j] # "/" }
  IN  IF dots = {} THEN << >>
      ELSE SubSeq(path, CHOOSE i \in dots : \A j \in dots : j <= i, Len(path))

getContentType(filename) ==
  LET ext == Ext(filename)
  IN  CASE ext = << ".", "m", "p", "4" >> -> "video/mp4"
        [] ext = << ".", "m", "o", "v" >> -> "video/quicktime"
        [] ext = << ".", "a", "v", "i" >> -> "video/x-msvideo"
        [] ext = << ".", "w", "e", "b", "m" >> -> "video/webm"
        [] ext = << ".", "p", "d", "f" >> -> "application/pdf"
        [] ext \in { << ".", "j", "p", "g" >>, << ".", "j", "p", "e", "g" >> }
             -> "image/jpeg"
        [] ext = << ".", "p", "n", "g" >> -> "image/png"
        [] ext = << ".", "g", "i", "f" >> -> "image/gif"
        [] ext = << ".", "w", "e", "b", "p" >> -> "image/webp"
        [] ext = << ".", "t", "x", "t" >> -> "text/plain"
        [] ext \in { << ".", "h", "t", "m", "l" >>, << ".", "h", "t", "m" >> }
             -> "text/html"
        [] ext = << ".", "j", "s", "o", "n" >> -> "application/json"
        [] ext = << ".", "x", "m", "l" >> -> "application/xml"
        [] ext = << ".", "m", "p", "3" >> -> "audio/mpeg"
        [] ext = << ".", "w", "a", "v" >> -> "audio/wav"
        [] ext = << ".", "o", "g", "g" >> -> "audio/ogg"
        [] OTHER -> "application/octet-stream"

\* the unit prefix parseRange requires, and its length
BytesEq == << "b", "y", "t", "e", "s", "=" >>
UnitLen == 6

RangeError == [ok |-> FALSE, start |-> 0, end |-> 0]

\* a suffix range whose start is not clamped
SuffixStartUnclamped(fileSize, suffixLength) == fileSize - suffixLength

\* start = fileSize - suffixLength; if start < 0 { start = 0 }
SuffixStart(fileSize, suffixLength) ==
  IF fileSize - suffixLength < 0 THEN 0 ELSE fileSize - suffixLength

\* an end that is not clamped
EndUnclamped(end, fileSize) == end

\* if end >= fileSize { end = fileSize - 1 }
ClampEnd(end, fileSize) == IF end >= fileSize THEN fileSize - 1 ELSE end

parseRange(rangeHeader, fileSize) ==
  IF Len(rangeHeader) < UnitLen \/ SubSeq(rangeHeader, 1, UnitLen) # BytesEq
  THEN RangeError
  ELSE
    LET parts == Split(SubSeq(rangeHeader, UnitLen + 1, Len(rangeHeader)), "-")
    IN  IF Len(parts) # 2 THEN RangeError
        ELSE
          LET first == ParseInt(parts[1])
              second == ParseInt(parts[2])
              bad ==
                IF parts[1] = << >>
                THEN parts[2] = << >> \/ ~second.ok \/ second.val < 0
                ELSE \/ ~first.ok \/ first.val < 0
                     \/ /\ parts[2] # << >>
                        /\ (~second.ok \/ second.val < first.val)
              start == IF parts[1] = << >>
                       THEN SuffixStart(fileSize, second.val)
                       ELSE first.val
              end == IF parts[1] = << >> \/ parts[2] = << >>
                     THEN fileSize - 1
                     ELSE second.val
          IN  IF bad THEN RangeError
              ELSE IF start >= fileSize THEN RangeError
              ELSE [ok |-> TRUE, start |-> start,
                    end |-> ClampEnd(end, fileSize)]

(***************************************************************************)
(* serveFile.  A request carries the id of the route, the Range header     *)
(* (empty: none), whether os.Open succeeds, and the number of body bytes   *)
(* the connection takes before the client is gone.  The ids of the model   *)
(* name regular files: filepath.Join("uploads", id) is the entry id of     *)
(* the directory.                                                          *)
(***************************************************************************)
FileReq(kind, id, range, opens, accept) ==
  [kind |-> kind, id |-> id, range |-> range, opens |-> opens,
   accept |-> accept]

Min(a, b) == IF a < b THEN a ELSE b

\* the bytes of w.Write(bytes) that reach a connection taking accept bytes
Taken(bytes, accept) == SubSeq(bytes, 1, Min(Len(bytes), accept))

\* a read of n bytes that ignores the file offset
ReadFromTop(content, start, n) == SubSeq(content, 1, Min(n, Len(content)))

\* f.Seek(start, 0), then a read of up to n bytes
ReadAt(content, start, n) ==
  SubSeq(content, start + 1, Min(start + n, Len(content)))

\* the raw id as declared name, whatever the registry holds
RawName(fileID) == fileID

\* filename := fileID; if fi, exists := files[fileID]; exists { ... }
DeclaredName(fileID) ==
  IF Exists(files, fileID) THEN files[fileID].Name ELSE fileID

\* a copy that sends nothing
CopyNothing(content, accept) == << >>

\* io.Copy(w, f) from offset 0
Copy(content, accept) == Taken(ReadAt(content, 0, Len(content)), accept)

\* a byte no file name can hold
NulByte == "\\x00"

\* the directory the objects are stored in, relative to the working directory
UploadDir == << "uploads" >>

RECURSIVE CleanElems(_, _)
\* filepath.Clean on the elements of a relative path: empty and "." elements
\* are dropped, ".." removes the element before it.  No element left: "."
CleanElems(elems, acc) ==
  IF elems = << >> THEN acc
  ELSE LET e == Head(elems)
           up == << ".", "." >>
       IN  IF e = << >> \/ e = << "." >> THEN CleanElems(Tail(elems), acc)
           ELSE IF e = up /\ acc # << >> /\ acc[Len(acc)] # up
             THEN CleanElems(Tail(elems), SubSeq(acc, 1, Len(acc) - 1))
           ELSE CleanElems(Tail(elems), Append(acc, e))

\* filepath.Join(dir, elem), as the sequence of the elements of the path
Join(dir, elem) == CleanElems(Split(dir \o << "/" >> \o elem, "/"), << >>)

\* fullPath := filepath.Join("uploads", filepath.Base(fileID))
fullPath(id) == Join(UploadDir, Base(id))

\* the path names an entry of the directory uploads
DirectChild(path) ==
  Len(path) = 2 /\ path[1] = UploadDir /\ path[2] # << ".", "." >>

\* the size os.Stat reports for a directory: not zero
DirSize == 1

\* os.Stat(filepath.Join("uploads", name)): the name is not one the file
\* system takes, or the path is the directory uploads or the working
\* directory, or it is an entry of uploads that is there or is not
Stat(name) ==
  IF \E i \in 1..Len(name) : name[i] = NulByte THEN "EINVAL"
  ELSE IF ~DirectChild(Join(UploadDir, name)) THEN "dir"
  ELSE IF Exists(uploads, name) THEN "ok"
  ELSE "ENOENT"

\* http.NotFound
NotFound(lg) ==
  [code |-> 404, ContentType |-> "text/plain; charset=utf-8",
   ContentDisposition |-> << >>, ContentLength |-> << >>,
   CacheControl |-> "", ContentRange |-> << >>, AcceptRanges |-> "",
   body |-> << "404 page not found\n" >>, log |-> lg]

serveFile(r, inline) ==
  LET fileID == Base(r.id)
  IN
  IF Stat(fileID) = "ENOENT" THEN NotFound(<< "File not found" >>)
  ELSE IF Stat(fileID) = "EINVAL" \/ ~r.opens
    THEN NotFound(<< "File open error" >>)
  ELSE
    \* a directory opens, and every read of it fails
    LET isDir == Stat(fileID) = "dir"
        content == IF isDir THEN << >> ELSE uploads[fileID]
        filename == DeclaredName(fileID)
        fileSize == IF isDir THEN DirSize ELSE Len(content)
        rng == parseRange(r.range, fileSize)
        full == Copy(content, r.accept)
        head ==
          [code |-> 200,
           ContentType |-> getContentType(filename),
           ContentDisposition |->
             << IF inline THEN "inline; filename=\""
                ELSE "attachment; filename=\"" >> \o filename \o << "\"" >>,
           ContentLength |-> Itoa(fileSize),
           CacheControl |-> "public, max-age=3600",
           ContentRange |-> << >>,
           AcceptRanges |-> "bytes",
           body |-> full,
           log |-> IF Len(full) < fileSize
                   THEN << "Serving file", "File copy error" >>
                   ELSE << "Serving file" >>]
    IN
    \* f.Seek fails on a negative offset
    IF r.range # << >> /\ rng.ok /\ rng.start >= 0
    THEN [head EXCEPT
            !.code = 206,
            !.ContentRange =
              << "bytes " >> \o Itoa(rng.start) \o << "-" >> \o Itoa(rng.end)
              \o << "/" >> \o Itoa(fileSize),
            !.ContentLength = Itoa(rng.end - rng.start + 1),
            !.body = Taken(ReadAt(content, rng.start,
                                  rng.end - rng.start + 1), r.accept),
            !.log = << "Serving range request" >>]
    ELSE head

\* a file read leaves everything but its answer alone
FileReadFrame ==
  UNCHANGED << proc, snippets, disk, fd, pc, req, url, snip, data, out, solo,
               burned, nextSer, committed, issued, orig, past, list, uploads,
               files, freq, given >>

downloadFileHandler ==
  /\ proc = "up"
  /\ freq.kind = "download"
  /\ fout = NoFileResp
  /\ fout' = serveFile(freq, FALSE)
  /\ FileReadFrame

streamFileHandler ==
  /\ proc = "up"
  /\ freq.kind = "stream"
  /\ fout = NoFileResp
  /\ fout' = serveFile(freq, TRUE)
  /\ FileReadFrame

(***************************************************************************)
(* Specification SpecRange: one stored object of 0 .. MaxSize bytes,       *)
(* tracked in the registry or not, and one download or stream request      *)
(* with any Range header over RangeChars.                                  *)
(***************************************************************************)
ObjName == << "7", "-", "a", ".", "p", "n", "g" >>
OrigName == << "a", ".", "p", "n", "g" >>
MissingName == << "8", "-", "b" >>

RangeChars == { "0", "1", "2", "3", "-", "+", "x" }
RangeSpecs == UNION { [1..n -> RangeChars] : n \in 0..MaxSpecLen }
RangeHeaders ==
  { BytesEq \o s : s \in RangeSpecs }
  \cup { << >>, << "b", "y", "t", "e", "s" >>,
         << "b", "i", "t", "e", "s", "=", "0", "-", "0" >> }

Objects == { [i \in 1..n |-> i] : n \in 0..MaxSize }
Registries ==
  { [id \in tracked |-> FileInfo(id, OrigName, id)] :
      tracked \in SUBSET {ObjName, MissingName} }
FileReqs ==
  { FileReq(kind, id, range, opens, accept) :
      kind \in {"download", "stream"}, id \in {ObjName, MissingName},
      range \in RangeHeaders, opens \in BOOLEAN, accept \in 0..MaxSize }

InitRange ==
  /\ proc = "up"
  /\ snippets = EmptyMap
  /\ disk = [f \in Paths |-> NoFile]
  /\ InitIdle
  /\ orig = [m |-> EmptyMap, phase |-> "none"]
  /\ uploads \in { [id \in {ObjName} |-> c] : c \in Objects }
  /\ files \in Registries
  /\ freq \in FileReqs
  /\ given = NoUpload
  /\ fout = NoFileResp

NextRange ==
  \/ downloadFileHandler
  \/ streamFileHandler

SpecRange == InitRange /\ [][NextRange]_vars

(***************************************************************************)
(* uploadFileHandler.  A request carries the method, the filename          *)
(* parameter of the 'file' part as the client sent it (absent: no such     *)
(* part), the bytes of the part, the reading of time.Now().UnixNano(),     *)
(* whether os.Create succeeds and the number of bytes io.Copy writes       *)
(* before it fails (all of them: no failure).  The wall clock is a free    *)
(* input: it can be set back, and two requests can read the same value.    *)
(***************************************************************************)
\* mime/multipart Part.FileName: filepath.Base of the filename parameter
PartFileName(submitted) == Base(submitted)

\* fmt.Sprintf("%d-%s", time.Now().UnixNano(), filepath.Base(handler.Filename))
UniqueID(now, filename) == Itoa(now) \o << "-" >> \o Base(filename)

\* the directory entry filepath.Join("uploads", id) names: Join cleans the
\* path, which drops a trailing separator
EntryName(id) == TrimSlashes(id)

HttpError(code, msg) == [code |-> code, body |-> << msg >>]

UploadReq(method, hasFile, submitted, content, now, creates, copied) ==
  [kind |-> "upload", method |-> method, hasFile |-> hasFile,
   submitted |-> submitted, content |-> content, now |-> now,
   creates |-> creates, copied |-> copied]

\* the answer of uploadFileHandler to r
UploadResp(r) ==
  LET uniqueID == UniqueID(r.now, PartFileName(r.submitted))
  IN  IF r.method # "POST" THEN HttpError(405, "Method not allowed")
      ELSE IF ~r.hasFile THEN HttpError(400, "Error retrieving file")
      ELSE IF ~r.creates
        THEN HttpError(500, "Cannot create file on server")
      ELSE IF r.copied < Len(r.content)
        THEN HttpError(500, "Cannot save file")
      ELSE [code |-> 303, loc |-> << "/file/" >> \o uniqueID]

\* the directory after the request: os.Create truncates or creates the
\* entry, io.Copy writes r.copied bytes
UploadStored(r) ==
  IF r.method = "POST" /\ r.hasFile /\ r.creates
  THEN MapPut(uploads,
              EntryName(UniqueID(r.now, PartFileName(r.submitted))),
              SubSeq(r.content, 1, r.copied))
  ELSE uploads

\* a record written as soon as the object is created
UploadTrackedEarly(r) ==
  LET filename == PartFileName(r.submitted)
      uniqueID == UniqueID(r.now, filename)
  IN  IF r.method = "POST" /\ r.hasFile /\ r.creates
      THEN MapPut(files, uniqueID, FileInfo(uniqueID, filename, uniqueID))
      ELSE files

\* files[uniqueID] = fi, once the copy is complete
UploadTracked(r) ==
  LET filename == PartFileName(r.submitted)
      uniqueID == UniqueID(r.now, filename)
  IN  IF UploadResp(r).code = 303
      THEN MapPut(files, uniqueID, FileInfo(uniqueID, filename, uniqueID))
      ELSE files

\* everything but the file server's state
SnippetFrame ==
  UNCHANGED << proc, snippets, disk, fd, pc, req, url, snip, data, out, solo,
               burned, nextSer, committed, issued, orig, past, list >>

uploadFileHandler(r) ==
  /\ proc = "up"
  /\ freq = NoFileReq
  /\ freq' = r
  /\ fout' = UploadResp(r)
  /\ uploads' = UploadStored(r)
  /\ files' = UploadTracked(r)
  /\ given' = IF UploadResp(r).code = 303
              THEN [id |-> Tail(UploadResp(r).loc),
                    submitted |-> r.submitted, content |-> r.content]
              ELSE NoUpload
  /\ SnippetFrame

(***************************************************************************)
(* viewFileHandler and displayFileHandler.  render is the outcome of the   *)
(* template's Execute, as in displaySnippet; qr is that of                 *)
(* generateQRCodeBase64, "ok" or "fail".                                   *)
(***************************************************************************)
ExtIn(filename, exts) == Ext(filename) \in exts

isVideoFile(filename) ==
  ExtIn(filename, { << ".", "m", "p", "4" >>, << ".", "m", "o", "v" >>,
                    << ".", "a", "v", "i" >>, << ".", "w", "e", "b", "m" >> })
isAudioFile(filename) ==
  ExtIn(filename, { << ".", "m", "p", "3" >>, << ".", "w", "a", "v" >>,
                    << ".", "o", "g", "g" >> })
isImageFile(filename) ==
  ExtIn(filename, { << ".", "j", "p", "g" >>, << ".", "j", "p", "e", "g" >>,
                    << ".", "p", "n", "g" >>, << ".", "g", "i", "f" >>,
                    << ".", "w", "e", "b", "p" >> })
isPDFFile(filename) == Ext(filename) = << ".", "p", "d", "f" >>
\* a text category read off the MIME type
isTextFileByType(filename) ==
  getContentType(filename) \in { "text/plain", "text/html" }

isTextFile(filename) ==
  ExtIn(filename, { << ".", "t", "x", "t" >>, << ".", "h", "t", "m", "l" >>,
                    << ".", "h", "t", "m" >>, << ".", "j", "s", "o", "n" >>,
                    << ".", "x", "m", "l" >> })

PageReq(kind, id, qr, render) ==
  [kind |-> kind, id |-> id, qr |-> qr, render |-> render]

\* the answer of viewFileHandler to r
ViewResp(r) ==
  LET fileID == Base(r.id)
      filename == DeclaredName(fileID)
  IN  IF Stat(fileID) = "ENOENT" THEN HttpError(404, "404 page not found\n")
      ELSE IF r.render = "fail" THEN HttpError(500, "Template error")
      ELSE [code |-> 200,
            FileName |-> filename,
            StreamURL |-> << "/stream/" >> \o fileID,
            DownloadURL |-> << "/download/" >> \o fileID,
            ContentType |-> getContentType(filename),
            IsVideo |-> isVideoFile(filename),
            IsAudio |-> isAudioFile(filename),
            IsImage |-> isImageFile(filename),
            IsPDF |-> isPDFFile(filename),
            IsText |-> isTextFile(filename),
            TextContent |-> IF isTextFile(filename) /\ Stat(fileID) = "ok"
                            THEN uploads[fileID] ELSE << >>]

\* the answer of displayFileHandler to r
DisplayFileResp(r) ==
  LET fileID == Base(r.id)
  IN  IF Stat(fileID) = "ENOENT" THEN HttpError(404, "404 page not found\n")
      ELSE IF r.qr # "ok" THEN HttpError(500, "Failed to generate QR code")
      ELSE IF r.render = "fail" THEN HttpError(500, "Template error")
      ELSE [code |-> 200,
            FileName |-> DeclaredName(fileID),
            ViewURL |-> << "/view/" >> \o fileID,
            DownloadURL |-> << "/download/" >> \o fileID]

\* a read that also records the object it was asked for
FileReadTracking(r, resp) ==
  /\ proc = "up"
  /\ freq = NoFileReq
  /\ freq' = r
  /\ fout' = resp
  /\ files' = MapPut(files, Base(r.id), FileInfo(Base(r.id), r.id, Base(r.id)))
  /\ UNCHANGED << uploads, given >>
  /\ SnippetFrame

\* a handler that reads: its answer is all it changes
FileRead(r, resp) ==
  /\ proc = "up"
  /\ freq = NoFileReq
  /\ freq' = r
  /\ fout' = resp
  /\ UNCHANGED << uploads, files, given >>
  /\ SnippetFrame

viewFileHandler(id, render) ==
  LET r == PageReq("view", id, "ok", render) IN FileRead(r, ViewResp(r))

displayFileHandler(id, qr, render) ==
  LET r == PageReq("file", id, qr, render) IN FileRead(r, DisplayFileResp(r))

downloadFile(id, opens) ==
  LET r == FileReq("download", id, << >>, opens, MaxSize)
  IN  FileRead(r, serveFile(r, FALSE))

streamFile(id, opens) ==
  LET r == FileReq("stream", id, << >>, opens, MaxSize)
  IN  FileRead(r, serveFile(r, TRUE))

(***************************************************************************)
(* Specification SpecFiles: uploads and reads in any order, one request    *)
(* at a time, with restarts of the process and removals of stored objects  *)
(* by the host's operator.  freq and fout are the request being served and *)
(* its answer, until the answer has gone out.                              *)
(***************************************************************************)
UploadNames ==
  { << "a", ".", "t", "x", "t" >>, << "d", "/", "a", ".", "t", "x", "t" >>,
    << "/" >> }
UploadContents == { << 1 >>, << 2 >> }
Clock == 1..MaxClock
NulName == << NulByte >>
\* ids that name no object: "..", ".", "" and one with a directory component
DirIds ==
  { << ".", "." >>, << "." >>, << >>, << ".", ".", "/" >> \o MissingName }
\* the ids a client asks for: those it was given, and some it was not
FileIds ==
  DOMAIN uploads \cup DOMAIN files \cup { MissingName, NulName } \cup DirIds

\* the answer has gone out: the server waits for the next request
Answered ==
  /\ freq # NoFileReq
  /\ freq' = NoFileReq
  /\ fout' = NoFileResp
  /\ UNCHANGED << uploads, files, given >>
  /\ SnippetFrame

\* a new process: var files = make(map[string]FileInfo)
RestartFiles ==
  /\ proc = "up"
  /\ files # EmptyMap
  /\ files' = EmptyMap
  /\ freq' = NoFileReq
  /\ fout' = NoFileResp
  /\ given' = NoUpload
  /\ UNCHANGED uploads
  /\ SnippetFrame

\* the operator removes a stored object
RemoveObject(name) ==
  /\ proc = "up"
  /\ Exists(uploads, name)
  /\ uploads' = MapDelete(uploads, name)
  /\ freq' = NoFileReq
  /\ fout' = NoFileResp
  /\ given' = NoUpload
  /\ UNCHANGED files
  /\ SnippetFrame

InitFiles ==
  /\ proc = "up"
  /\ snippets = EmptyMap
  /\ disk = [f \in Paths |-> NoFile]
  /\ InitIdle
  /\ orig = [m |-> EmptyMap, phase |-> "none"]
  /\ InitNoFiles

NextFiles ==
  \/ \E method \in {"GET", "PUT"} :
       uploadFileHandler(UploadReq(method, FALSE, << >>, << >>, 0, FALSE, 0))
  \/ uploadFileHandler(UploadReq("POST", FALSE, << >>, << >>, 0, FALSE, 0))
  \/ \E submitted \in UploadNames, content \in UploadContents, now \in Clock :
       /\ Cardinality(DOMAIN uploads) < MaxObjects
       /\ uploadFileHandler(UploadReq("POST", TRUE, submitted, content, now,
                                      FALSE, 0))
  \/ \E submitted \in UploadNames, content \in UploadContents, now \in Clock :
       \E copied \in 0..Len(content) :
         /\ Cardinality(DOMAIN uploads) < MaxObjects
            \/ Exists(uploads, EntryName(UniqueID(now, PartFileName(submitted))))
         /\ uploadFileHandler(UploadReq("POST", TRUE, submitted, content, now,
                                        TRUE, copied))
  \/ \E id \in FileIds, opens \in BOOLEAN : downloadFile(id, opens)
  \/ \E id \in FileIds, opens \in BOOLEAN : streamFile(id, opens)
  \/ \E id \in FileIds, render \in Renders : viewFileHandler(id, render)
  \/ \E id \in FileIds, qr \in {"ok", "fail"}, render \in Renders :
       displayFileHandler(id, qr, render)
  \/ Answered
  \/ RestartFiles
  \/ \E name \in DOMAIN uploads : RemoveObject(name)

SpecFiles == InitFiles /\ [][NextFiles]_vars

(***************************************************************************)
(* Specification SpecClassify: viewFileHandler classifies one untracked    *)
(* object after another.  The names are a stem followed by an extension:   *)
(* each extension getContentType knows, in lower and in upper case, and    *)
(* some it does not know.                                                  *)
(***************************************************************************)
\* extension, MIME type and category, as getContentType and the five
\* predicates have them
MimeTable ==
  { << << ".", "m", "p", "4" >>, "video/mp4", "video" >>,
    << << ".", "m", "o", "v" >>, "video/quicktime", "video" >>,
    << << ".", "a", "v", "i" >>, "video/x-msvideo", "video" >>,
    << << ".", "w", "e", "b", "m" >>, "video/webm", "video" >>,
    << << ".", "m", "p", "3" >>, "audio/mpeg", "audio" >>,
    << << ".", "w", "a", "v" >>, "audio/wav", "audio" >>,
    << << ".", "o", "g", "g" >>, "audio/ogg", "audio" >>,
    << << ".", "j", "p", "g" >>, "image/jpeg", "image" >>,
    << << ".", "j", "p", "e", "g" >>, "image/jpeg", "image" >>,
    << << ".", "p", "n", "g" >>, "image/png", "image" >>,
    << << ".", "g", "i", "f" >>, "image/gif", "image" >>,
    << << ".", "w", "e", "b", "p" >>, "image/webp", "image" >>,
    << << ".", "p", "d", "f" >>, "application/pdf", "pdf" >>,
    << << ".", "t", "x", "t" >>, "text/plain", "text" >>,
    << << ".", "h", "t", "m", "l" >>, "text/html", "text" >>,
    << << ".", "h", "t", "m" >>, "text/html", "text" >>,
    << << ".", "j", "s", "o", "n" >>, "application/json", "text" >>,
    << << ".", "x", "m", "l" >>, "application/xml", "text" >> }

UpperOrder ==
  << "0", "1", "2", "3", "4", "5", "6", "7", "8", "9", "A", "B", "C", "D", "E", "F", "G", "H", "I", "J", "K", "L", "M", "N", "O", "P", "Q", "R", "S", "T", "U", "V", "W", "X", "Y", "Z" >>
ToUpper(s) ==
  [i \in 1..Len(s) |->
     IF \E k \in 1..Len(AsciiOrder) : AsciiOrder[k] = s[i]
     THEN UpperOrder[CHOOSE k \in 1..Len(AsciiOrder) : AsciiOrder[k] = s[i]]
     ELSE s[i]]

MappedExts == { row[1] : row \in MimeTable }
ClassExts ==
  MappedExts \cup { ToUpper(e) : e \in MappedExts }
    \cup { << >>, << "." >>, << ".", "x", "y", "z" >>, << ".", "m", "p" >>,
           << ".", "m", "p", "4", "x" >>, << "m", "p", "4" >> }
ClassStems == { << "a" >>, << ".", "b" >>, << "a", ".", "m", "p", "4" >> }
ClassNames == { stem \o e : stem \in ClassStems, e \in ClassExts }

InitClassify ==
  /\ proc = "up"
  /\ snippets = EmptyMap
  /\ disk = [f \in Paths |-> NoFile]
  /\ InitIdle
  /\ orig = [m |-> EmptyMap, phase |-> "none"]
  /\ uploads = [n \in ClassNames |-> << 1 >>]
  /\ files = EmptyMap
  /\ freq = NoFileReq
  /\ given = NoUpload
  /\ fout = NoFileResp

NextClassify ==
  \/ \E id \in ClassNames : viewFileHandler(id, "ok")
  \/ Answered

SpecClassify == InitClassify /\ [][NextClassify]_vars

(***************************************************************************)
(* Claims about the server (specification Spec).                           *)
(***************************************************************************)
\* a mutating handler (handleSave, deleteSnippet, a burning displaySnippet,
\* whose last step sends nothing: its 200 went out before the removal)
\* returned in the last step
MutatorReturned ==
  /\ out.fin
  /\ \/ out.req.kind \in {"save", "delete"}
     \/ out.req.kind = "display" /\ out.code = 0

\* C1: a burn-after-reading snippet is retrievable once.  After a
\* displaySnippet has rendered it and removed it, its id is not in the store
\* until a handleSave stores that id again, and a displaySnippet of the id in
\* that time answers 303 to "/".  (One run of the process: burned is emptied
\* when the process stops.)
BurnedIsGone ==
  /\ \A id \in burned : id \notin DOMAIN snippets
  /\ (out.req.kind = "display" /\ out.sawBurned) =>
       (out.code = 303 /\ out.loc = "/" /\ out.fin)

BurnedIsGoneWitness ==
  /\ out.req.kind = "display"
  /\ out.sawBurned
  /\ out.code = 303
  /\ out.req.id \in burned

\* C2: of the displaySnippet requests for one burn-after-reading snippet, at
\* most one returns its content: no two goroutines have both rendered the
\* same stored snippet.
OneReaderPerBurn ==
  \A h1, h2 \in Handlers :
    (h1 # h2 /\ pc[h1] = "burn" /\ pc[h2] = "burn") =>
      ~(url[h1] = url[h2] /\ snip[h1].ser = snip[h2].ser)

\* C3: the file at the snapshot path is absent, or it is the complete
\* document of the last save that succeeded.
SnapshotIsLastSave ==
  disk[SnapPath].exists => disk[SnapPath].content = committed

\* C4: when a mutating handler returns, no other goroutine having been in
\* flight since its request began and its save having hit no I/O error, the
\* snapshot is the serialization of the store.
SavedAfterMutation ==
  (MutatorReturned /\ out.solo /\ out.log # "error") =>
    disk[SnapPath] = File(MarshalIndent(snippets))

SavedAfterMutationWitness ==
  /\ MutatorReturned
  /\ out.solo
  /\ out.log = "saved"
  /\ out.req.kind = "save"
  /\ DOMAIN snippets # {}
  /\ disk[SnapPath] = File(MarshalIndent(snippets))

\* C7: the id a handleSave stores its snippet under is in no entry of the
\* store at the moment of the store, so no save overwrites a snippet.
StoreUnderFreshId ==
  \A h \in Handlers : pc[h] = "put" => url[h] \notin DOMAIN snippets

\* C8: no goroutine is about to write a store while another goroutine is
\* about to read, iterate or write it.  Nothing orders two goroutines, so
\* two such accesses are concurrent.
WritesSnippets(p) == pc[p] \in {"put", "burn"}
ReadsSnippets(p) == pc[p] \in {"gen", "marshal"}

NoDataRace ==
  \A p, q \in Procs :
    (p # q /\ WritesSnippets(p)) => ~(WritesSnippets(q) \/ ReadsSnippets(q))

(***************************************************************************)
(* Claims about the round trip (SpecRT) and id generation (SpecGen).       *)
(***************************************************************************)
SameSnippet(a, b) ==
  /\ a.Title = b.Title
  /\ a.Text = b.Text
  /\ a.BurnAfterReading = b.BurnAfterReading

\* C5: a store saved by saveSnippetsToFile and loaded by
\* loadSnippetsFromFile into an empty map comes back with the same ids, each
\* with the same title, text and burn-after-reading flag.
RoundTrip ==
  orig.phase = "loaded" =>
    /\ DOMAIN snippets = DOMAIN orig.m
    /\ \A id \in DOMAIN orig.m : SameSnippet(snippets[id], orig.m[id])

\* C6: the ids generateURL returns in a sequential run are pairwise distinct
\* strings of 3 characters of snippetChars, and each is absent from the
\* store when it is returned.
Chars(seq) == { seq[i] : i \in 1..Len(seq) }

GeneratedIdsDistinct ==
  /\ \A i, j \in 1..Len(issued) : i # j => issued[i] # issued[j]
  /\ \A i \in 1..Len(issued) :
       Len(issued[i]) = 3 /\ Chars(issued[i]) \subseteq Chars(snippetChars)
  /\ pc[1] = "put" => url[1] \notin DOMAIN snippets

GeneratedIdsWitness ==
  /\ Len(issued) = MaxGen
  /\ DOMAIN snippets = Chars(issued)

(***************************************************************************)
(* Claims about serveFile (specification SpecRange).                       *)
(***************************************************************************)
\* the request was for the stored object, os.Open succeeded, and the answer
\* has been sent
Served ==
  /\ fout # NoFileResp
  /\ Base(freq.id) = ObjName
  /\ freq.opens

\* 'bytes=start-end'
ClosedRange(start, end) == BytesEq \o Itoa(start) \o << "-" >> \o Itoa(end)
\* 'bytes=-k'
SuffixRange(k) == BytesEq \o << "-" >> \o Itoa(k)

\* the answer is 206 with the bytes start..end of the object, as far as the
\* connection takes them
Partial(start, end) ==
  LET S == Len(uploads[ObjName])
  IN  /\ fout.code = 206
      /\ fout.ContentRange =
           << "bytes " >> \o Itoa(start) \o << "-" >> \o Itoa(end)
           \o << "/" >> \o Itoa(S)
      /\ fout.ContentLength = Itoa(end - start + 1)
      /\ fout.body = Taken([i \in 1..(end - start + 1) |->
                              uploads[ObjName][start + i]], freq.accept)

\* C9: for the stored object of size S and a header 'bytes=start-end' with
\* 0 <= start <= end < S, serveFile answers 206 with Content-Range
\* 'bytes start-end/S', Content-Length end-start+1 and, on a connection that
\* takes them, a body of exactly the end-start+1 bytes start..end of the
\* object.
ClosedRangeServed ==
  \A start \in 0..MaxSize, end \in 0..MaxSize :
    ( /\ Served
      /\ freq.range = ClosedRange(start, end)
      /\ start <= end
      /\ end < Len(uploads[ObjName]) )
    => /\ Partial(start, end)
       /\ freq.accept >= end - start + 1 =>
            /\ Len(fout.body) = end - start + 1
            /\ \A i \in 1..Len(fout.body) :
                 fout.body[i] = uploads[ObjName][start + i]

\* a range from the middle of the object to a byte before its end was served
\* in full
ClosedRangeServedWitness ==
  /\ Served
  /\ Len(uploads[ObjName]) = MaxSize
  /\ freq.range = ClosedRange(1, 1)
  /\ freq.accept = MaxSize
  /\ fout.code = 206
  /\ fout.body = << 2 >>

OpenRange(start) == BytesEq \o Itoa(start) \o << "-" >>

IsNumber(s) == s # << >> /\ \A i \in 1..Len(s) : IsDigit(s[i])

\* hdr is 'bytes=<start>-<end>', 'bytes=<start>-' or 'bytes=-<suffix>'
IsSingleRange(hdr) ==
  /\ Len(hdr) > UnitLen
  /\ SubSeq(hdr, 1, UnitLen) = BytesEq
  /\ \E i \in (UnitLen + 1)..Len(hdr) :
       LET left == SubSeq(hdr, UnitLen + 1, i - 1)
           right == SubSeq(hdr, i + 1, Len(hdr))
       IN  /\ hdr[i] = "-"
           /\ \/ IsNumber(left) /\ IsNumber(right)
              \/ IsNumber(left) /\ right = << >>
              \/ left = << >> /\ IsNumber(right)

\* the first byte a header of one of the three forms asks for
RangeStart(hdr, S) ==
  LET i == CHOOSE k \in (UnitLen + 1)..Len(hdr) : hdr[k] = "-"
      left == SubSeq(hdr, UnitLen + 1, i - 1)
      right == SubSeq(hdr, i + 1, Len(hdr))
  IN  IF left = << >>
      THEN IF DigitsValue(right) > S THEN 0 ELSE S - DigitsValue(right)
      ELSE DigitsValue(left)

\* the answer is 200 with the whole object, as far as the connection takes it
Whole ==
  /\ fout.code = 200
  /\ fout.ContentRange = << >>
  /\ fout.ContentLength = Itoa(Len(uploads[ObjName]))
  /\ fout.body = Taken(uploads[ObjName], freq.accept)

\* C12: for the stored object, every Range header that is not one of the
\* three single-range forms, or whose start is at or past the object's size,
\* is answered 200 with the whole object, Content-Length the total size and
\* no Content-Range.
OtherRangesFallBack ==
  ( /\ Served
    /\ freq.range # << >>
    /\ \/ ~IsSingleRange(freq.range)
       \/ RangeStart(freq.range, Len(uploads[ObjName]))
            >= Len(uploads[ObjName]) )
  => Whole

\* C13: with no Range header, serveFile of the stored object answers 200
\* with Content-Length the object's total size and, on a connection that
\* takes it, a body equal to the whole object.
NoRangeServedWhole ==
  (Served /\ freq.range = << >>)
  => /\ Whole
     /\ freq.accept >= Len(uploads[ObjName]) => fout.body = uploads[ObjName]

\* an object of MaxSize bytes was sent whole to a request without a Range
\* header
NoRangeServedWholeWitness ==
  /\ Served
  /\ freq.range = << >>
  /\ freq.accept = MaxSize
  /\ fout.code = 200
  /\ Len(fout.body) = MaxSize
  /\ fout.ContentLength = Itoa(MaxSize)

\* C15: for the stored object, the declared name serveFile uses is the
\* registry record's original name when the id is tracked and the raw id
\* otherwise, and an untracked object is still served; Content-Type is the
\* classification of that name and Content-Disposition is
\* 'attachment; filename="<name>"' for download and
\* 'inline; filename="<name>"' for stream.
DeclaredNameServed ==
  Served =>
    LET name == IF ObjName \in DOMAIN files THEN OrigName ELSE ObjName
    IN  /\ fout.code \in {200, 206}
        /\ fout.ContentType = getContentType(name)
        /\ fout.ContentType = "image/png"
        /\ freq.kind = "download" =>
             fout.ContentDisposition =
               << "attachment; filename=\"" >> \o name \o << "\"" >>
        /\ freq.kind = "stream" =>
             fout.ContentDisposition =
               << "inline; filename=\"" >> \o name \o << "\"" >>

\* a tracked object was streamed under its original name
DeclaredNameServedWitness ==
  /\ Served
  /\ ObjName \in DOMAIN files
  /\ freq.kind = "stream"
  /\ fout.code = 200
  /\ fout.ContentDisposition =
       << "inline; filename=\"", "a", ".", "p", "n", "g", "\"" >>

(***************************************************************************)
(* Claims about uploads and reads (specification SpecFiles).               *)
(***************************************************************************)
\* the request being answered is an id-addressed read
IsFileRead == freq.kind \in {"download", "stream", "view", "file"}

\* C14: for every id whose backing object is missing, download, stream, view
\* and file display answer 404, whether or not the registry holds a record
\* for the id.
MissingIs404 ==
  (IsFileRead /\ ~Exists(uploads, Base(freq.id))) => fout.code = 404

\* this step is an upload answered 303
UploadSucceeds == freq'.kind = "upload" /\ fout'.code = 303

\* the id an upload's redirect to /file/<id> names
RedirectId(resp) == Tail(resp.loc)

\* C16: a successful upload adds exactly one record to the registry, with
\* id = storedName = the generated id and originalName = the submitted
\* filename, creates exactly one backing object named by that id, leaves
\* every other record and object unchanged, and answers 303.
UploadAddsOne ==
  [][ UploadSucceeds =>
        LET id == RedirectId(fout')
        IN  /\ ~Exists(files, id)
            /\ DOMAIN files' = DOMAIN files \cup {id}
            /\ files'[id] = FileInfo(id, freq'.submitted, id)
            /\ \A other \in DOMAIN files : files'[other] = files[other]
            /\ ~Exists(uploads, id)
            /\ DOMAIN uploads' = DOMAIN uploads \cup {id}
            /\ \A other \in DOMAIN uploads : uploads'[other] = uploads[other]
    ]_vars

\* the request being answered is a download of the id the last successful
\* upload was given, with nothing but reads in between
DownloadOfGiven ==
  /\ given # NoUpload
  /\ freq.kind = "download"
  /\ freq.id = given.id
  /\ freq.opens

\* C17: for every filename and content X, after a successful upload a
\* download of the new id answers 200 with Content-Disposition
\* 'attachment; filename="<submitted filename>"' and a body equal to X.
UploadDownloadRoundTrip ==
  DownloadOfGiven =>
    /\ fout.code = 200
    /\ fout.ContentDisposition =
         << "attachment; filename=\"" >> \o given.submitted \o << "\"" >>
    /\ fout.body = given.content

\* C18: uploadFileHandler answers 405 to any method but POST, 400 when the
\* 'file' part is missing, and 500 when the backing object cannot be created
\* or written; in each of these outcomes the registry is unchanged.
UploadFailuresKeepRegistry ==
  [][ freq'.kind = "upload" =>
        /\ freq'.method # "POST" => fout'.code = 405
        /\ (freq'.method = "POST" /\ ~freq'.hasFile) => fout'.code = 400
        /\ ( /\ freq'.method = "POST"
             /\ freq'.hasFile
             /\ ~freq'.creates \/ freq'.copied < Len(freq'.content) )
           => fout'.code = 500
        /\ fout'.code \in {405, 400, 500} => files' = files
    ]_vars

\* an upload whose copy failed was answered 500 while the registry held a
\* record
UploadFailuresKeepRegistryWitness ==
  /\ freq.kind = "upload"
  /\ freq.creates
  /\ freq.copied < Len(freq.content)
  /\ fout.code = 500
  /\ files # EmptyMap

(***************************************************************************)
(* Claims about the snippet handlers' own steps.                           *)
(***************************************************************************)
\* handler h executes snippets[url] = Snippet{...} in this step
StoreStep(h) == pc[h] = "put" /\ pc'[h] = "marshal"

\* C19: the store handleSave performs adds exactly one new snippet, whose
\* title is the submitted title or "None" when that is empty, whose text is
\* the submitted text and whose burn flag is true exactly when the 'burn'
\* field is "true", and changes no existing snippet; the handler answers
\* 303 to /display/<new id>.
SaveAddsOne ==
  /\ [][ \A h \in Handlers : StoreStep(h) =>
           /\ ~Exists(snippets, url[h])
           /\ DOMAIN snippets' = DOMAIN snippets \cup {url[h]}
           /\ \A other \in DOMAIN snippets : snippets'[other] = snippets[other]
           /\ snippets'[url[h]].Title =
                (IF req[h].title = << >> THEN << "N", "o", "n", "e" >>
                 ELSE req[h].title)
           /\ snippets'[url[h]].Text = req[h].text
           /\ snippets'[url[h]].BurnAfterReading = (req[h].burn = "true")
       ]_vars
  /\ []( (out.fin /\ out.req.kind = "save") =>
           (out.code = 303 /\ out.loc = "/display/" /\ out.id # << >>) )

\* handler h executes deleteSnippet's delete(snippets, url) in this step
DeleteStep(h) ==
  pc[h] = "idle" /\ pc'[h] = "marshal" /\ req'[h].kind = "delete"

\* C20: the removal deleteSnippet performs is unconditional: for every id,
\* after it the id is absent from the store and every other entry is
\* unchanged, for an absent id nothing changes, and the handler always
\* answers 303 to home, whatever its save did.
DeleteRemovesOne ==
  /\ [][ \A h \in Handlers : DeleteStep(h) =>
           LET id == req'[h].id
           IN  /\ ~Exists(snippets', id)
               /\ DOMAIN snippets' = DOMAIN snippets \ {id}
               /\ \A other \in DOMAIN snippets' :
                    snippets'[other] = snippets[other]
               /\ ~Exists(snippets, id) => snippets' = snippets
       ]_vars
  /\ []( (out.fin /\ out.req.kind = "delete") =>
           (out.code = 303 /\ out.loc = "/") )

\* a deleteSnippet whose save failed answered 303, its id is gone and
\* another snippet is still stored
DeleteRemovesOneWitness ==
  /\ out.fin
  /\ out.req.kind = "delete"
  /\ out.code = 303
  /\ out.log = "error"
  /\ ~Exists(snippets, out.req.id)
  /\ snippets # EmptyMap

\* handler h looks a snippet up and answers in this step
DisplayStep(h) ==
  pc[h] = "idle" /\ out'.p = h /\ out'.req.kind = "display" /\ out'.code # 0

\* C21: displaySnippet of a snippet whose burn flag is false answers 200
\* with that snippet when the rendering succeeds, leaves the store unchanged
\* and starts no save; displaySnippet of an absent id answers 303 to home
\* and leaves the store unchanged.
PlainDisplayKeepsStore ==
  [][ \A h \in Handlers : DisplayStep(h) =>
        LET id == out'.req.id
        IN  /\ (Exists(snippets, id) /\ ~snippets[id].BurnAfterReading) =>
                 /\ out'.render = "ok" =>
                      (out'.code = 200 /\ out'.body = snippets[id])
                 /\ snippets' = snippets
                 /\ pc'[h] = "idle"
            /\ ~Exists(snippets, id) =>
                 /\ out'.code = 303
                 /\ out'.loc = "/"
                 /\ snippets' = snippets
                 /\ pc'[h] = "idle"
    ]_vars

\* a snippet that is not burn-after-reading was displayed and is still stored
PlainDisplayKeepsStoreWitness ==
  /\ out.req.kind = "display"
  /\ out.code = 200
  /\ out.render = "ok"
  /\ out.fin
  /\ ~out.body.BurnAfterReading
  /\ Exists(snippets, out.req.id)
  /\ snippets[out.req.id] = out.body

\* C22: a burn-after-reading snippet is removed only after a successful
\* render: when the rendering fails, displaySnippet answers 500, the snippet
\* stays in the store and no save is started.
BurnOnlyAfterRender ==
  [][ \A h \in Handlers :
        /\ (pc'[h] = "burn" /\ pc[h] # "burn") =>
             (out'.code = 200 /\ out'.render = "ok")
        /\ ( /\ DisplayStep(h)
             /\ Exists(snippets, out'.req.id)
             /\ out'.render # "ok" )
           => /\ out'.code = 500
              /\ snippets' = snippets
              /\ pc'[h] = "idle"
    ]_vars

\* saveSnippetsToFile, run by goroutine p, returns in this step having
\* logged an error
SaveFails(p) ==
  pc[p] \in { "open", "write", "rename" } /\ out'.p = p /\ out'.log = "error"

\* C23: when saveSnippetsToFile fails, the failure is reported to the
\* caller, the process keeps running, the store in memory is unchanged and
\* the file at the snapshot path is still the snapshot committed before.
SaveFailureContained ==
  [][ \A h \in Handlers : SaveFails(h) =>
        \* the caller does not send the answer of a successful request
        /\ out'.req.kind \in { "save", "delete" } => out'.code # 303
        /\ proc' = "up"
        /\ snippets' = snippets
        /\ disk'[SnapPath] = disk[SnapPath]
    ]_vars

\* main runs loadSnippetsFromFile in this step
StartStep == proc = "down" /\ proc' # "down"

\* C24: loadSnippetsFromFile on a path that does not exist is not an error:
\* it returns normally and the snippet store is empty afterwards.
MissingSnapshotLoadsEmpty ==
  [][ (StartStep /\ ~disk[SnapPath].exists) =>
        (proc' = "up" /\ snippets' = EmptyMap) ]_vars

\* the process serves with an empty store and there is no snapshot
MissingSnapshotLoadsEmptyWitness ==
  /\ proc = "up"
  /\ ~disk[SnapPath].exists
  /\ snippets = EmptyMap
  /\ \A p \in Procs : pc[p] = "idle"

\* the document is one JSON object and nothing else
ValidDocument(doc) == DecodeOk(doc) /\ FirstClose(doc) = Len(doc)

\* C25: when the snapshot path exists but cannot be opened or parsed at
\* startup, the process terminates and never serves requests.
BadSnapshotIsFatal ==
  [][ ( /\ StartStep
        /\ disk[SnapPath].exists
        /\ ~ValidDocument(disk[SnapPath].content) )
      => proc' = "fatal" ]_vars

\* C26: on SIGINT or SIGTERM the process runs a final saveSnippetsToFile
\* before it exits: the exit is never reached before that save has been
\* attempted, and after a signal the process eventually exits.
ShutdownSavesThenExits ==
  /\ [][ (proc = "up" /\ proc' = "down") =>
           /\ pc[SignalProc] \in { "open", "write", "rename" }
           /\ out'.p = SignalProc
           /\ out'.req.kind = "shutdown"
           /\ out'.log \in { "saved", "error" } ]_vars
  /\ (pc[SignalProc] # "idle") ~> (proc = "down")

\* the process has exited after a signal and its final save is on disk
ShutdownSavesThenExitsWitness ==
  /\ proc = "down"
  /\ out.p = SignalProc
  /\ out.req.kind = "shutdown"
  /\ out.log = "saved"
  /\ disk[SnapPath] = File(MarshalIndent(orig.m))

\* C27: after a restart of the process the snippet store equals the
\* contents of the snapshot committed last, and the file registry is empty.
RestartRestoresSnapshot ==
  [][ (StartStep /\ proc' = "up") =>
        /\ snippets' = IF committed = << >> THEN EmptyMap
                       ELSE Decode(EmptyMap, committed)
        /\ files' = EmptyMap ]_vars

\* a handler that resolves an id to a path has answered
IsIdRead == freq.kind \in { "download", "stream", "view", "file" }

\* C28: for every requested id (ids with directory components, "..", "."
\* and the empty string included) each read by id (download, stream, view,
\* file display) resolves to a path that is a direct child of the directory
\* uploads: never the directory itself, its parent or a path outside it.
ReadsStayInUploads == IsIdRead => DirectChild(fullPath(freq.id))

\* viewFileHandler has classified a name
Classified == freq.kind = "view" /\ fout.code = 200

\* C29: classification is a function of the extension of the filename: a
\* mapped extension yields the MIME type of the table and exactly one of the
\* categories video, audio, image, pdf, text, the one the table gives; an
\* unmapped or missing extension, the upper-case variant of a mapped one
\* included, yields application/octet-stream and no category.
ClassifiedByTable ==
  Classified =>
    LET rows == { row \in MimeTable : row[1] = Ext(fout.FileName) }
        cats == { c \in { "video", "audio", "image", "pdf", "text" } :
                    \/ c = "video" /\ fout.IsVideo
                    \/ c = "audio" /\ fout.IsAudio
                    \/ c = "image" /\ fout.IsImage
                    \/ c = "pdf" /\ fout.IsPDF
                    \/ c = "text" /\ fout.IsText }
    IN  IF rows # {}
        THEN \A row \in rows :
               fout.ContentType = row[2] /\ cats = { row[3] }
        ELSE fout.ContentType = "application/octet-stream" /\ cats = {}

\* a .json name was classified as application/json in the category text
ClassifiedByTableWitness ==
  /\ Classified
  /\ fout.FileName = << "a", ".", "j", "s", "o", "n" >>
  /\ fout.ContentType = "application/json"
  /\ fout.IsText
  /\ ~fout.IsImage

\* C30: generateURL terminates: from every reachable store, under a fair
\* random choice of the candidate id, it eventually returns an id.
GenerateURLTerminates ==
  \A h \in Handlers : (pc[h] = "gen") ~> (pc[h] = "put")

\* C31: whenever parseRange succeeds for an object of size S its result
\* satisfies 0 <= start <= end <= S-1, so every 206 answer has a
\* Content-Length between 1 and S and holds bytes of the object only; for an
\* empty object no Range header parses.
RangeWithinObject ==
  LET S == Len(uploads[ObjName])
      got == parseRange(freq.range, S)
  IN  /\ got.ok => (0 <= got.start /\ got.start <= got.end /\ got.end <= S - 1)
      /\ S = 0 => ~got.ok
      /\ (Served /\ fout.code = 206) =>
           /\ got.ok
           /\ \E n \in 1..S : fout.ContentLength = Itoa(n)
           /\ fout.ContentLength = Itoa(got.end - got.start + 1)
           /\ fout.body =
                Taken(SubSeq(uploads[ObjName], got.start + 1, got.end + 1),
                      freq.accept)

\* a range whose end lies past the object was answered with the object's
\* last bytes
RangeWithinObjectWitness ==
  /\ Served
  /\ Len(uploads[ObjName]) = 2
  /\ freq.range = ClosedRange(1, 3)
  /\ freq.accept = MaxSize
  /\ fout.code = 206
  /\ fout.ContentLength = << "1" >>

\* C32: under any interleaving of concurrent mutating handlers with no I/O
\* failure, once all of them have completed the snapshot on disk equals the
\* store in memory: a save that serialized an older state of the store
\* never commits after a save that serialized a newer one.
QuiescentSnapshotIsStore ==
  (\A h \in Handlers : pc[h] = "idle") =>
    IF disk[SnapPath].exists
    THEN disk[SnapPath].content = MarshalIndent(snippets)
    ELSE snippets = EmptyMap

\* C33: under concurrent calls of saveSnippetsToFile, which all write the
\* same temporary path, the file at the snapshot path is at every moment the
\* complete serialization of the store as one save call read it, and a
\* rename never commits a temporary file that another save is still writing
\* or has truncated.
SnapshotIsOneSave ==
  /\ [](disk[SnapPath].exists =>
          /\ ValidDocument(disk[SnapPath].content)
          /\ disk[SnapPath].content = committed)
  /\ [][ \A p \in Procs :
           (pc[p] = "rename" /\ out'.p = p /\ out'.log = "saved") =>
             /\ disk[TmpPath].content = data[p]
             /\ \A q \in Procs \ {p} : fd[q] # "tmp" ]_vars

\* C34: the removal a burn-after-reading displaySnippet performs deletes
\* only the snippet this request read: it never removes a different snippet
\* that was stored under the same id after the read.
BurnRemovesWhatItRead ==
  [][ \A h \in Handlers :
        (pc[h] = "burn" /\ pc'[h] = "marshal" /\ Exists(snippets, url[h])) =>
          snippets[url[h]] = snip[h] ]_vars

\* C35: once a burn-after-reading snippet has been displayed with success,
\* no later display returns it, also across a crash or restart that reloads
\* the snapshot, when the process stops between the removal and the save and
\* when that save fails.
BurnedStaysGone ==
  [][ \A h \in Handlers :
        (DisplayStep(h) /\ out'.code = 200 /\ out'.body.BurnAfterReading) =>
          out'.body.ser \notin past.shown ]_vars

\* C36: after an id has been removed by deleteSnippet or by a burn, every
\* later displaySnippet of that id reports absence (303), whatever
\* handleSave requests follow: generateURL never assigns a removed id to a
\* new snippet.
RemovedIdStaysAbsent ==
  [][ \A h \in Handlers :
        /\ (DisplayStep(h) /\ out'.req.id \in past.removed) =>
             out'.code = 303
        /\ (pc[h] = "gen" /\ pc'[h] = "put") => url[h] \notin past.removed
    ]_vars

\* C37: an upload that responds 500 leaves the backing storage as it was
\* before the request: when the copy fails after the object was created, no
\* object is resolvable under the new id.
FailedUploadLeavesStorage ==
  [][ (freq = NoFileReq /\ freq'.kind = "upload" /\ fout'.code = 500) =>
        /\ uploads' = uploads
        /\ LET name == EntryName(UniqueID(freq'.now,
                                          PartFileName(freq'.submitted)))
           IN  Exists(uploads', name) => Exists(uploads, name) ]_vars

\* C38: every file-registry record satisfies key = ID = StoredName, and a
\* record once inserted is never changed or removed by any handler: the
\* registry only grows, and a later upload never replaces the record or the
\* backing object of an earlier upload.
RegistryOnlyGrows ==
  /\ [](\A id \in DOMAIN files :
          files[id].ID = id /\ files[id].StoredName = id)
  /\ [][ (freq = NoFileReq /\ freq' # NoFileReq) =>
           \A id \in DOMAIN files :
             /\ Exists(files', id) /\ files'[id] = files[id]
             /\ Exists(uploads, EntryName(id)) =>
                  /\ Exists(uploads', EntryName(id))
                  /\ uploads'[EntryName(id)] = uploads[EntryName(id)] ]_vars

(***************************************************************************)
(* Specification SpecReads: the four read endpoints over one stored object *)
(* and a snippet store, with Range headers, refused opens, failed renders  *)
(* and connections that stop taking bytes in mid-stream.                   *)
(***************************************************************************)
ReadRanges ==
  { << >>, ClosedRange(0, 0), ClosedRange(1, 3), SuffixRange(1),
    ClosedRange(3, 1) }
ReadIds == { ObjName, MissingName, << ".", "." >> }

InitReads ==
  /\ proc = "up"
  /\ snippets \in StoreStores
  /\ disk = [f \in Paths |-> NoFile]
  /\ InitIdle
  /\ orig = [m |-> EmptyMap, phase |-> "none"]
  /\ uploads \in { [id \in {ObjName} |-> c] : c \in Objects }
  /\ files \in Registries
  /\ freq = NoFileReq
  /\ given = NoUpload
  /\ fout = NoFileResp

NextReads ==
  \/ \E id \in ReadIds, range \in ReadRanges, opens \in BOOLEAN,
        accept \in 0..MaxSize :
       LET r == FileReq("download", id, range, opens, accept)
       IN  FileRead(r, serveFile(r, FALSE))
  \/ \E id \in ReadIds, range \in ReadRanges, opens \in BOOLEAN,
        accept \in 0..MaxSize :
       LET r == FileReq("stream", id, range, opens, accept)
       IN  FileRead(r, serveFile(r, TRUE))
  \/ \E id \in ReadIds, render \in Renders : viewFileHandler(id, render)
  \/ \E id \in ReadIds, qr \in {"ok", "fail"}, render \in Renders :
       displayFileHandler(id, qr, render)
  \/ Answered

SpecReads == InitReads /\ [][NextReads]_vars

\* C39: no file read endpoint (download, stream, view, file display)
\* changes the file registry, the backing storage or the snippet store,
\* whatever its outcome: 200, 206, 404, or a write failure in mid-stream.
FileReadsChangeNothing ==
  [][ (freq = NoFileReq /\ freq'.kind \in { "download", "stream", "view",
                                            "file" }) =>
        /\ files' = files
        /\ uploads' = uploads
        /\ snippets' = snippets
        /\ disk' = disk ]_vars

\* a stream of a range stopped by the connection after one byte of two
FileReadsChangeNothingWitness ==
  /\ freq.kind = "stream"
  /\ freq.range = ClosedRange(1, 3)
  /\ fout.code = 206
  /\ fout.ContentLength = << "2" >>
  /\ Len(fout.body) = 1
  /\ DOMAIN snippets # {}
  /\ Exists(files, ObjName)

(***************************************************************************)
(* truncateText and buildSnippetsList.  A Go map is ranged over in an      *)
(* order the language leaves open: order is that order, an input of the    *)
(* call.  Specification SpecList calls buildSnippetsList on stores of up   *)
(* to MaxList snippets whose texts have 0 to MaxText bytes, in every order *)
(* on a store of up to MaxOrder snippets, and on a larger one in the       *)
(* sorted order, its reverse and their rotations.                          *)
(***************************************************************************)
TruncLen == 10
IndexMax == 10
MaxList == 11
MaxOrder == 3
MaxText == 12

Ellipsis == << ".", ".", "." >>

truncateText(text, maxLen) ==
  IF Len(text) > maxLen THEN SubSeq(text, 1, maxLen) \o Ellipsis ELSE text

SnippetInfo(id, title, truncated) ==
  [ID |-> id, Title |-> title, TruncatedText |-> truncated]

\* a cut that does not test maxResults > 0
UpToStrict(results, maxResults) ==
  IF Len(results) > maxResults
  THEN SubSeq(results, 1, maxResults) ELSE results

\* if maxResults > 0 && len(results) > maxResults { results[:maxResults] }
UpTo(results, maxResults) ==
  IF maxResults > 0 /\ Len(results) > maxResults
  THEN SubSeq(results, 1, maxResults) ELSE results

buildSnippetsList(snippetsMap, order, maxResults) ==
  UpTo([i \in 1..Len(order) |->
          SnippetInfo(order[i], snippetsMap[order[i]].Title,
                      truncateText(snippetsMap[order[i]].Text, TruncLen))],
       maxResults)

RECURSIVE AllOrders(_)
AllOrders(S) ==
  IF S = {} THEN { << >> }
  ELSE UNION { { << k >> \o o : o \in AllOrders(S \ {k}) } : k \in S }

Reverse(s) == [i \in 1..Len(s) |-> s[Len(s) + 1 - i]]
Rotate(s, k) == [i \in 1..Len(s) |-> s[((i + k - 1) % Len(s)) + 1]]

\* the orders in which the range loop yields the keys of S
Orders(S) ==
  IF Cardinality(S) <= MaxOrder THEN AllOrders(S)
  ELSE { Rotate(o, k) : o \in { SortedKeys(S), Reverse(SortedKeys(S)) },
                        k \in 0..(Cardinality(S) - 1) }

ListIds(n) == { << AsciiOrder[10 + i] >> : i \in 1..n }
ListText(len) == [i \in 1..len |-> AsciiOrder[i]]
ListStores ==
  { [id \in ListIds(n) |->
       Snippet(<< "t" >> \o id,
               ListText((ByteRank(id[1]) + s) % (MaxText + 1)), FALSE, 0)] :
      n \in 0..MaxList, s \in 0..MaxText }
ListMaxResults == (-1..(MaxList + 1)) \ {IndexMax}

ListFrame ==
  UNCHANGED << proc, snippets, disk, fd, pc, req, url, snip, data, out, solo,
               burned, nextSer, committed, issued, orig, past, uploads,
               files, freq, given, fout >>

\* buildSnippetsList(snippets, 10)
getAllSnippetsDescending(order) ==
  /\ list.pc = "none"
  /\ list' = [pc |-> "done", maxResults |-> IndexMax,
              results |-> buildSnippetsList(snippets, order, IndexMax)]
  /\ ListFrame

\* buildSnippetsList(tt.snippets, tt.maxResults)
TestBuildSnippetsList(order, maxResults) ==
  /\ list.pc = "none"
  /\ list' = [pc |-> "done", maxResults |-> maxResults,
              results |-> buildSnippetsList(snippets, order, maxResults)]
  /\ ListFrame

InitList ==
  /\ proc = "up"
  /\ snippets \in ListStores
  /\ disk = [f \in Paths |-> NoFile]
  /\ InitIdle
  /\ orig = [m |-> EmptyMap, phase |-> "none"]
  /\ InitNoFiles

NextList ==
  \/ \E order \in Orders(DOMAIN snippets) : getAllSnippetsDescending(order)
  \/ \E order \in Orders(DOMAIN snippets), maxResults \in ListMaxResults :
       TestBuildSnippetsList(order, maxResults)

SpecList == InitList /\ [][NextList]_vars

\* C40: buildSnippetsList over a map of n snippets returns min(n,
\* maxResults) entries when maxResults > 0 and all n when maxResults is 0;
\* each entry carries a distinct id of the map with that snippet's title
\* and its text cut to the first 10 bytes plus '...' when longer than 10,
\* unchanged otherwise; the index page lists at most 10 snippets.
ListIsCutAndTruncated ==
  list.pc = "done" =>
    LET n == Cardinality(DOMAIN snippets)
        res == list.results
        mr == list.maxResults
    IN  /\ mr > 0 => Len(res) = (IF n < mr THEN n ELSE mr)
        /\ mr = 0 => Len(res) = n
        /\ \A i \in 1..Len(res) :
             /\ res[i].ID \in DOMAIN snippets
             /\ res[i].Title = snippets[res[i].ID].Title
             /\ LET text == snippets[res[i].ID].Text
                IN  res[i].TruncatedText =
                      IF Len(text) > 10
                      THEN SubSeq(text, 1, 10) \o << ".", ".", "." >>
                      ELSE text
        /\ \A i, j \in 1..Len(res) : res[i].ID = res[j].ID => i = j
        /\ mr = 10 => Len(res) <= 10

\* the index page's call on a store of 11 snippets, with texts of exactly
\* 10 bytes and of more among those listed
ListIsCutAndTruncatedWitness ==
  /\ list.pc = "done"
  /\ list.maxResults = 10
  /\ Cardinality(DOMAIN snippets) = 11
  /\ Len(list.results) = 10
  /\ \E i \in 1..Len(list.results) :
       /\ Len(snippets[list.results[i].ID].Text) = 12
       /\ Len(list.results[i].TruncatedText) = 13
  /\ \E i \in 1..Len(list.results) :
       /\ Len(snippets[list.results[i].ID].Text) = 10
       /\ list.results[i].TruncatedText = snippets[list.results[i].ID].Text

=============================================================================
